---- MODULE Spec2Model ----
(***************************************************************************)
(* swing-alert-bot: the sliding-window rate limiter                        *)
(* (src/common/rate_limiter.py), the encrypted S3 state store with its     *)
(* copy-based optimistic lock (src/state/s3_store.py) and the read /       *)
(* modify / write tail of the poller, EOD and open handlers.               *)
(*                                                                         *)
(* Time is counted in whole seconds.  The specifications of the module:     *)
(* SpecLimiter (threads calling acquire on one limiter), SpecClient        *)
(* (HTTP clients sending through the limiter), SpecStore (clients calling  *)
(* read and write on one bucket), SpecCorrupt (reads of altered objects),  *)
(* SpecRetry (a read-modify-write loop against a competing writer),        *)
(* SpecHandlers (overlapping handler runs on one bucket) and               *)
(* SpecSequential (handler runs one after the other), SpecConstruct        *)
(* (limiters constructed with good and bad arguments), SpecCodec           *)
(* (encodings of State values), SpecLive (acquire under a fair scheduler   *)
(* and an advancing clock), SpecRequest (the retry loop of one client      *)
(* request), SpecCache (daily_if_changed calls on one cache),              *)
(* SpecReadWrite (clients writing with the token they read), SpecTidy      *)
(* (the store over a backend that answers every delete) and SpecCommands   *)
(* (the poller's command loop, update by update).                          *)
(***************************************************************************)
EXTENDS Integers, Sequences, FiniteSets, TLC

\* ---------------------------------------------------------------- bounds
MaxN == 2            \* largest max_calls a limiter is constructed with
MaxW == 2            \* largest per_seconds a limiter is constructed with
MaxTime == 3         \* the clock stops advancing here
SleepChunk == 1      \* time.sleep(min(delay, 1.0))
MaxWrites == 2       \* write calls the clients of SpecStore make in one behaviour
MaxUpdateId == 2     \* largest Telegram update_id
MaxBegun == 3        \* SpecSequential schedules no run once this many writes began
MaxDate == 2         \* the provider's newest dates are 1..MaxDate
MaxCommands == 3     \* commands one poller run of SpecCommands goes through
MaxCalls == 3        \* SpecLive admits no more acquire calls than this
MaxRequests == 2     \* SpecRequest admits no more _request calls than this

Threads == {"t1", "t2"}
NoThread == "none"

VARIABLES
    \* --- SlidingWindowRateLimiter
    max_calls,       \* _cfg.max_calls
    per_seconds,     \* _cfg.per_seconds
    events,          \* _events: deque of admitted timestamps still kept
    lock,            \* _lock: the thread holding it, or NoThread
    clock,           \* the value the next _clock() call returns
    \* --- one acquire call per thread
    tpc,             \* position of each thread inside acquire
    blocking,        \* the blocking argument of the running call
    now,             \* local `now`
    delay,           \* local `delay`
    wakeAt,          \* clock value at which time.sleep returns
    outcome,         \* how the thread's last call ended
    cancelReq,       \* an external party asked for the waiting call to be cancelled
    admitted         \* history: admitted[u] = number of calls admitted with timestamp u

limiterVars == <<max_calls, per_seconds, events, lock, clock, tpc, blocking, now,
                 delay, wakeAt, outcome, cancelReq, admitted>>

VARIABLES
    \* --- the S3 bucket and the network
    s3,              \* key -> [Body, ETag] for the keys that exist
    nextId,          \* source of fresh Fernet IVs and uuid4 values
    lastWriter,      \* history: the process whose request last changed the state key
    \* --- one S3StateStore call per process
    spc,             \* position inside write ("idle" between calls)
    w_cipher,        \* write: ciphertext
    w_temp,          \* write: temp_key
    w_pending,       \* write: what the try block produced, held during `finally`
    res,             \* the running call's arguments, then what it returned or raised
    reqs             \* history: the S3 requests the running or last call has issued

storeVars == <<s3, nextId, lastWriter, spc, w_cipher, w_temp, w_pending,
               res, reqs>>

VARIABLES
    \* --- one handler invocation (run_once) per process
    hpc,             \* position inside run_once ("idle" before, "done" after)
    hkind,           \* which handler runs: "poller", "eod" or "open"
    hstate,          \* local `state`
    hetag,           \* local `etag`
    hupdates,        \* poller: local `updates`
    alerts,          \* history: alerts[k] = alerts sent so far with dedup key k
    lostWrite,       \* history: some run ended with both of its writes failed
    ackFailed        \* history: an acknowledgement of the running poller run was not sent

handlerVars == <<hpc, hkind, hstate, hetag, hupdates, alerts, lostWrite,
                 ackFailed>>

VARIABLES
    \* --- one AlphaVantageClient._request call per thread, on the shared limiter
    cpc,             \* position inside _request ("idle" between calls)
    attempt,         \* local `attempt`
    backoff,         \* local `backoff`
    resumeAt,        \* clock value at which time.sleep(backoff) returns
    raised,          \* what the thread's last _request returned or raised
    sent,            \* history: sent[u] = HTTP requests sent at clock u
    ctor,            \* history: the arguments of the last limiter constructor call
    \* --- one SymbolUpdateCache and the daily_if_changed calls on it
    cache_data,      \* _data: key -> last_refreshed, NoneVal for a key without entry
    dres             \* the arguments of the last daily_if_changed call and what it did

cacheVars == <<cache_data, dres>>

clientVars == <<cpc, attempt, backoff, resumeAt, raised, sent, ctor, cacheVars>>

vars == <<limiterVars, storeVars, handlerVars, clientVars>>

Min(a, b) == IF a <= b THEN a ELSE b
Max(a, b) == IF a >= b THEN a ELSE b

\* ------------------------------------------------- rate_limiter.py, pure

\* a prune that forgets every recorded timestamp
prune_everything(ev, t, W) == <<>>

\* _prune: drop timestamps that are outside the current window
RECURSIVE _prune(_, _, _)
_prune(ev, t, W) ==
    IF ev # <<>> /\ Head(ev) <= t - W THEN _prune(Tail(ev), t, W) ELSE ev

\* a limiter that admits one call too many: `<=` for `<`
next_available_delay_admits_one_more(ev, t, N, W) ==
    IF Len(ev) <= N THEN 0 ELSE Max(0, (Head(ev) + W) - t)

\* _next_available_delay: seconds to wait until the next slot is available
_next_available_delay(ev, t, N, W) ==
    IF Len(ev) < N THEN 0 ELSE Max(0, (Head(ev) + W) - t)

\* a limiter that checks the window without pruning it first
acquire_locked_without_prune(ev, t, N, W) ==
    LET d == _next_available_delay(ev, t, N, W)
    IN  [events |-> IF d = 0 THEN Append(ev, t) ELSE ev,
         delay  |-> d,
         admit  |-> d = 0]

\* a limiter that records the timestamp before it knows the call is admitted
acquire_locked_records_first(ev, t, N, W) ==
    LET pruned == _prune(ev, t, W)
        d == _next_available_delay(pruned, t, N, W)
    IN  [events |-> Append(pruned, t), delay |-> d, admit |-> d = 0]

\* the body of `with self._lock:` in acquire, after `now = self._clock()`
acquire_locked(ev, t, N, W) ==
    LET pruned == _prune(ev, t, W)
        d == _next_available_delay(pruned, t, N, W)
    IN  [events |-> IF d = 0 THEN Append(pruned, t) ELSE pruned,
         delay  |-> d,
         admit  |-> d = 0]

\* ---------------------------------------------- rate_limiter.py, actions

LimiterConstructed ==
    /\ max_calls \in 1..MaxN
    /\ per_seconds \in 1..MaxW
    /\ events = <<>>
    /\ lock = NoThread
    /\ clock = 0
    /\ tpc = [t \in Threads |-> "idle"]
    /\ blocking = [t \in Threads |-> FALSE]
    /\ now = [t \in Threads |-> 0]
    /\ delay = [t \in Threads |-> 0]
    /\ wakeAt = [t \in Threads |-> 0]
    /\ outcome = [t \in Threads |-> "none"]
    /\ cancelReq = [t \in Threads |-> FALSE]
    /\ admitted = [u \in 0..MaxTime |-> 0]

\* a thread calls acquire(blocking=b)
Call(t, b) ==
    /\ UNCHANGED <<storeVars, handlerVars, clientVars>>
    /\ tpc[t] = "idle"
    /\ tpc' = [tpc EXCEPT ![t] = "enter"]
    /\ blocking' = [blocking EXCEPT ![t] = b]
    /\ outcome' = [outcome EXCEPT ![t] = "none"]
    /\ cancelReq' = [cancelReq EXCEPT ![t] = FALSE]
    /\ UNCHANGED <<max_calls, per_seconds, events, lock, clock, now, delay, wakeAt,
                   admitted>>

\* a critical section that does not wait for the lock to be free
enter_without_waiting(t) ==
    /\ UNCHANGED <<storeVars, handlerVars, clientVars>>
    /\ tpc[t] = "enter"
    /\ lock' = t
    /\ now' = [now EXCEPT ![t] = clock]
    /\ tpc' = [tpc EXCEPT ![t] = "locked"]
    /\ UNCHANGED <<max_calls, per_seconds, events, clock, blocking, delay, wakeAt,
                   outcome, cancelReq, admitted>>

\* `with self._lock:` entered, `now = self._clock()`
Enter(t) ==
    /\ UNCHANGED <<storeVars, handlerVars, clientVars>>
    /\ tpc[t] = "enter"
    /\ lock = NoThread
    /\ lock' = t
    /\ now' = [now EXCEPT ![t] = clock]
    /\ tpc' = [tpc EXCEPT ![t] = "locked"]
    /\ UNCHANGED <<max_calls, per_seconds, events, clock, blocking, delay, wakeAt,
                   outcome, cancelReq, admitted>>

\* prune, compute the delay, append and return when it is zero; the lock is released
Check(t) ==
    /\ UNCHANGED <<storeVars, handlerVars, clientVars>>
    /\ tpc[t] = "locked"
    /\ lock = t
    /\ LET r == acquire_locked(events, now[t], max_calls, per_seconds) IN
        /\ events' = r.events
        /\ delay' = [delay EXCEPT ![t] = r.delay]
        /\ IF r.admit
             THEN /\ tpc' = [tpc EXCEPT ![t] = "idle"]
                  /\ outcome' = [outcome EXCEPT ![t] = "admitted"]
                  /\ admitted' = [admitted EXCEPT ![now[t]] = @ + 1]
             ELSE /\ tpc' = [tpc EXCEPT ![t] = "denied"]
                  /\ UNCHANGED <<outcome, admitted>>
    /\ lock' = NoThread
    /\ now' = [now EXCEPT ![t] = 0]
    /\ UNCHANGED <<max_calls, per_seconds, clock, blocking, wakeAt, cancelReq>>

\* an acquire that gives up after one failed check whether blocking or not
raise_even_if_blocking(t) ==
    /\ UNCHANGED <<storeVars, handlerVars, clientVars>>
    /\ tpc[t] = "denied"
    /\ tpc' = [tpc EXCEPT ![t] = "idle"]
    /\ outcome' = [outcome EXCEPT ![t] = "RateLimitError"]
    /\ delay' = [delay EXCEPT ![t] = 0]
    /\ UNCHANGED <<max_calls, per_seconds, events, lock, clock, blocking, now, wakeAt,
                   cancelReq, admitted>>

\* `if not blocking: raise RateLimitError`
Raise(t) ==
    /\ UNCHANGED <<storeVars, handlerVars, clientVars>>
    /\ tpc[t] = "denied"
    /\ ~blocking[t]
    /\ tpc' = [tpc EXCEPT ![t] = "idle"]
    /\ outcome' = [outcome EXCEPT ![t] = "RateLimitError"]
    /\ delay' = [delay EXCEPT ![t] = 0]
    /\ UNCHANGED <<max_calls, per_seconds, events, lock, clock, blocking, now, wakeAt,
                   cancelReq, admitted>>

\* a wait that sleeps the whole remaining delay in one piece
sleep_whole_delay(t) ==
    /\ UNCHANGED <<storeVars, handlerVars, clientVars>>
    /\ tpc[t] = "denied"
    /\ blocking[t]
    /\ tpc' = [tpc EXCEPT ![t] = "sleeping"]
    /\ wakeAt' = [wakeAt EXCEPT ![t] = clock + delay[t]]
    /\ delay' = [delay EXCEPT ![t] = 0]
    /\ UNCHANGED <<max_calls, per_seconds, events, lock, clock, blocking, now,
                   outcome, cancelReq, admitted>>

\* `time.sleep(min(delay, 1.0))` begins
Sleep(t) ==
    /\ UNCHANGED <<storeVars, handlerVars, clientVars>>
    /\ tpc[t] = "denied"
    /\ blocking[t]
    /\ tpc' = [tpc EXCEPT ![t] = "sleeping"]
    /\ wakeAt' = [wakeAt EXCEPT ![t] = clock + Min(delay[t], SleepChunk)]
    /\ delay' = [delay EXCEPT ![t] = 0]
    /\ UNCHANGED <<max_calls, per_seconds, events, lock, clock, blocking, now,
                   outcome, cancelReq, admitted>>

\* time.sleep returns; the `while True` loop starts over
Wake(t) ==
    /\ UNCHANGED <<storeVars, handlerVars, clientVars>>
    /\ tpc[t] = "sleeping"
    /\ clock >= wakeAt[t]
    /\ tpc' = [tpc EXCEPT ![t] = "enter"]
    /\ wakeAt' = [wakeAt EXCEPT ![t] = 0]
    /\ UNCHANGED <<max_calls, per_seconds, events, lock, clock, blocking, now, delay,
                   outcome, cancelReq, admitted>>

\* somebody outside asks for a sleeping call to be cancelled; acquire takes no
\* cancellation argument and reads no flag, so nothing in it depends on cancelReq
RequestCancel(t) ==
    /\ UNCHANGED <<storeVars, handlerVars, clientVars>>
    /\ tpc[t] = "sleeping"
    /\ ~cancelReq[t]
    /\ cancelReq' = [cancelReq EXCEPT ![t] = TRUE]
    /\ UNCHANGED <<max_calls, per_seconds, events, lock, clock, tpc, blocking, now,
                   delay, wakeAt, outcome, admitted>>

\* the monotonic clock advances
Tick ==
    /\ UNCHANGED <<storeVars, handlerVars, clientVars>>
    /\ clock < MaxTime
    /\ clock' = clock + 1
    /\ UNCHANGED <<max_calls, per_seconds, events, lock, tpc, blocking, now, delay,
                   wakeAt, outcome, cancelReq, admitted>>

NextLimiter ==
    \/ \E t \in Threads, b \in BOOLEAN : Call(t, b)
    \/ \E t \in Threads : Enter(t)
    \/ \E t \in Threads : Check(t)
    \/ \E t \in Threads : Raise(t)
    \/ \E t \in Threads : Sleep(t)
    \/ \E t \in Threads : Wake(t)
    \/ \E t \in Threads : RequestCancel(t)
    \/ Tick

\* ------------------------------------------- rate_limiter.py, __init__

\* the value of `lock` while no limiter object exists
NoLimiter == "no limiter"

\* a constructor that checks nothing
init_without_validation(N, W) ==
    [raised |-> "", max_calls |-> N, per_seconds |-> W, events |-> <<>>]

\* __init__: the two checks, then _cfg and an empty deque
__init__(N, W) ==
    IF N <= 0 THEN [raised |-> "ValueError", max_calls |-> 0, per_seconds |-> 0,
                    events |-> <<>>]
    ELSE IF W <= 0 THEN [raised |-> "ValueError", max_calls |-> 0, per_seconds |-> 0,
                         events |-> <<>>]
    ELSE [raised |-> "", max_calls |-> N, per_seconds |-> W, events |-> <<>>]

\* nothing is constructed yet
LimiterAbsent ==
    /\ max_calls = 0
    /\ per_seconds = 0
    /\ events = <<>>
    /\ lock = NoLimiter
    /\ clock = 0
    /\ tpc = [t \in Threads |-> "idle"]
    /\ blocking = [t \in Threads |-> FALSE]
    /\ now = [t \in Threads |-> 0]
    /\ delay = [t \in Threads |-> 0]
    /\ wakeAt = [t \in Threads |-> 0]
    /\ outcome = [t \in Threads |-> "none"]
    /\ cancelReq = [t \in Threads |-> FALSE]
    /\ admitted = [u \in 0..MaxTime |-> 0]

\* thread t calls SlidingWindowRateLimiter(N, W); an exception leaves the
\* caller without an object
Construct(t, N, W) ==
    /\ UNCHANGED <<storeVars, handlerVars>>
    /\ UNCHANGED <<cpc, attempt, backoff, resumeAt, raised, sent, cacheVars>>
    /\ ctor' = <<N, W>>
    /\ lock = NoLimiter
    /\ tpc[t] = "idle"
    /\ LET r == __init__(N, W) IN
        IF r.raised # ""
          THEN /\ outcome' = [outcome EXCEPT ![t] = r.raised]
               /\ UNCHANGED <<max_calls, per_seconds, events, lock>>
          ELSE /\ outcome' = [outcome EXCEPT ![t] = "constructed"]
               /\ max_calls' = r.max_calls
               /\ per_seconds' = r.per_seconds
               /\ events' = r.events
               /\ lock' = NoThread
    /\ UNCHANGED <<clock, tpc, blocking, now, delay, wakeAt, cancelReq, admitted>>

\* construction, then the calls on the limiter that was constructed
NextConstruct ==
    \/ \E t \in Threads, N \in -1..MaxN, W \in -1..MaxW : Construct(t, N, W)
    \/ \E t \in Threads, b \in BOOLEAN : lock # NoLimiter /\ Call(t, b)
    \/ \E t \in Threads : Enter(t)
    \/ \E t \in Threads : Check(t)
    \/ \E t \in Threads : Raise(t)
    \/ \E t \in Threads : Sleep(t)
    \/ \E t \in Threads : Wake(t)
    \/ Tick

\* ------------------------------------------------------ state/models.py

\* Python None; an Optional value is <<>> or <<x>>
NoneVal == <<>>

Tickers == {"AAPL", "MSFT"}
DedupKeys ==
    {"AAPL:2025-09-05:BUY_CANDIDATE", "AAPL:2025-09-08:OPEN_UPDATE",
     "MSFT:2025-09-05:BUY_CANDIDATE"}

\* the dedup keys in the order sort_keys=True puts them
KeyOrder ==
    <<"AAPL:2025-09-05:BUY_CANDIDATE", "AAPL:2025-09-08:OPEN_UPDATE",
      "MSFT:2025-09-05:BUY_CANDIDATE">>

\* State.empty()
EmptyState ==
    [held |-> <<>>, alerts_sent |-> [k \in {} |-> TRUE], last_update_id |-> NoneVal]

\* the states the clients of SpecStore pass to write
SampleStates ==
    { EmptyState,
      [held |-> <<"AAPL">>,
       alerts_sent |-> [k \in {"AAPL:2025-09-05:BUY_CANDIDATE"} |-> TRUE],
       last_update_id |-> <<42>>],
      [held |-> <<"MSFT", "AAPL">>,
       alerts_sent |-> [k \in {"AAPL:2025-09-05:BUY_CANDIDATE",
                               "MSFT:2025-09-05:BUY_CANDIDATE"} |->
                           k = "MSFT:2025-09-05:BUY_CANDIDATE"],
       last_update_id |-> NoneVal] }

\* ------------------------------------------------- s3_store.py, the codec

\* a dump that leaves the cursor out of the payload
dump_state_json_without_cursor(state) ==
    LET ks == SelectSeq(KeyOrder, LAMBDA k : k \in DOMAIN state.alerts_sent) IN
    << <<"alerts_sent", [i \in 1..Len(ks) |-> <<ks[i], state.alerts_sent[ks[i]]>>]>>,
       <<"held", state.held>>,
       <<"last_update_id", NoneVal>> >>

\* _dump_state_json: the JSON object as its (name, value) members in sorted
\* order; the alerts_sent object likewise as sorted (key, marker) members
_dump_state_json(state) ==
    LET ks == SelectSeq(KeyOrder, LAMBDA k : k \in DOMAIN state.alerts_sent) IN
    << <<"alerts_sent", [i \in 1..Len(ks) |-> <<ks[i], state.alerts_sent[ks[i]]>>]>>,
       <<"held", state.held>>,
       <<"last_update_id", state.last_update_id>> >>

\* the value of member `name` of a JSON object
Member(obj, name) == obj[CHOOSE i \in 1..Len(obj) : obj[i][1] = name][2]

\* _load_state_json: json.loads, then State.model_validate
_load_state_json(data) ==
    LET pairs == Member(data, "alerts_sent") IN
    [held |-> Member(data, "held"),
     alerts_sent |-> [k \in {pairs[i][1] : i \in 1..Len(pairs)} |-> Member(pairs, k)],
     last_update_id |-> Member(data, "last_update_id")]

\* bytes that json.loads rejects
NotJson == <<"not json">>

\* the `try: _load_state_json(decrypted) except Exception` of read: whether the
\* plaintext parses and validates as a State
parses(data) == data # NotJson

FernetKey == "fernet_key"
OtherKey == "other_key"

\* the AES-CBC ciphertext of a plaintext, and the HMAC over IV and ciphertext
Aes(key, iv, plaintext) == <<"aes", key, iv, plaintext>>
Hmac(key, iv, ct) == <<"hmac", key, iv, ct>>

\* Fernet.encrypt under a fresh IV: the token, as the URL-safe base64 text of
\* IV, ciphertext and HMAC
encrypt(key, iv, plaintext) ==
    [iv |-> iv, ct |-> Aes(key, iv, plaintext),
     mac |-> Hmac(key, iv, Aes(key, iv, plaintext)),
     cut |-> FALSE, b64 |-> "canonical"]

\* Fernet.decrypt: base64.urlsafe_b64decode, which discards characters
\* outside the alphabet and rejects a text cut short; then the HMAC check
\* under the key; then the plaintext. InvalidToken is ok = FALSE.
decrypt(key, token) ==
    IF token.cut \/ token.mac # Hmac(key, token.iv, token.ct)
      THEN [ok |-> FALSE, plain |-> <<>>]
      ELSE [ok |-> TRUE, plain |-> token.ct[4]]

\* --------------------------------------------------------- the S3 backend

StateKey == <<"state.json">>

\* a backend whose ETag does not depend on the object's bytes
etag_ignores_content(body) == <<"etag">>

\* the ETag is derived from the stored bytes alone
ETagOf(body) == <<"etag", body>>

put_object(objs, key, body) ==
    [s3   |-> [x \in DOMAIN objs \cup {key} |->
                 IF x = key THEN [Body |-> body, ETag |-> ETagOf(body)] ELSE objs[x]],
     err  |-> "",
     ETag |-> ETagOf(body)]

get_object(objs, key) ==
    IF key \in DOMAIN objs
      THEN [err |-> "", Body |-> objs[key].Body, ETag |-> objs[key].ETag]
      ELSE [err |-> "NoSuchKey", Body |-> <<>>, ETag |-> NoneVal]

\* a copy whose precondition is only evaluated on a destination that exists
copy_object_unless_differs(objs, key, source, IfMatch) ==
    IF IfMatch # NoneVal /\ key \in DOMAIN objs /\ objs[key].ETag # IfMatch
      THEN [s3 |-> objs, err |-> "PreconditionFailed", ETag |-> NoneVal]
    ELSE IF source \notin DOMAIN objs
      THEN [s3 |-> objs, err |-> "NoSuchKey", ETag |-> NoneVal]
    ELSE put_object(objs, key, objs[source].Body)

\* the destination precondition is evaluated and the copy made in one step
copy_object(objs, key, source, IfMatch) ==
    IF IfMatch # NoneVal /\ (key \notin DOMAIN objs \/ objs[key].ETag # IfMatch)
      THEN [s3 |-> objs, err |-> "PreconditionFailed", ETag |-> NoneVal]
    ELSE IF source \notin DOMAIN objs
      THEN [s3 |-> objs, err |-> "NoSuchKey", ETag |-> NoneVal]
    ELSE put_object(objs, key, objs[source].Body)

delete_object(objs, key) == [x \in DOMAIN objs \ {key} |-> objs[x]]

\* what a request gets when the backend cannot be reached (up = FALSE in the
\* actions): nothing is applied
unavailable(objs) ==
    [s3 |-> objs, err |-> "ServiceUnavailable", ETag |-> NoneVal, Body |-> <<>>]

\* --------------------------------------------------- s3_store.py, S3StateStore

Procs == {"p1", "p2"}
NoProc == "none"

\* the messages of the two ValueErrors read raises
DecryptMessage == "Failed to decrypt state: invalid Fernet token"
ParseMessage == "Failed to parse decrypted state JSON"

\* what a call returned (kind "ok") or the exception it raised (with the error
\* code a ClientError carries, or the message of a ValueError); for a write
\* also its arguments and, as history, the ETag the state key had when the
\* call began
Result(op, kind, code, state, etag, if_match, base) ==
    [op |-> op, kind |-> kind, code |-> code, state |-> state, etag |-> etag,
     if_match |-> if_match, base |-> base]

\* the ETag the state key has now, NoneVal when it does not exist
CurrentETag(objs) == IF StateKey \in DOMAIN objs THEN objs[StateKey].ETag ELSE NoneVal

\* a read that treats the missing object like any other client error
read_missing_raises(objs, up) ==
    LET resp == IF up THEN get_object(objs, StateKey) ELSE unavailable(objs) IN
    IF resp.err # ""
      THEN Result("read", "ClientError", resp.err, EmptyState, NoneVal, NoneVal, NoneVal)
    ELSE LET d == decrypt(FernetKey, resp.Body) IN
         IF ~d.ok
           THEN Result("read", "ValueError", DecryptMessage, EmptyState, NoneVal,
                       NoneVal, NoneVal)
         ELSE IF ~parses(d.plain)
           THEN Result("read", "ValueError", ParseMessage, EmptyState, NoneVal,
                       NoneVal, NoneVal)
           ELSE Result("read", "ok", "", _load_state_json(d.plain), resp.ETag, NoneVal,
                       NoneVal)

\* a read that reports every failure as ValueError
read_wraps_transport_error(objs, up) ==
    LET resp == IF up THEN get_object(objs, StateKey) ELSE unavailable(objs) IN
    IF resp.err \in {"NoSuchKey", "404"}
      THEN Result("read", "ok", "", EmptyState, NoneVal, NoneVal, NoneVal)
    ELSE IF resp.err # ""
      THEN Result("read", "ValueError", resp.err, EmptyState, NoneVal, NoneVal, NoneVal)
    ELSE LET d == decrypt(FernetKey, resp.Body) IN
         IF ~d.ok
           THEN Result("read", "ValueError", DecryptMessage, EmptyState, NoneVal,
                       NoneVal, NoneVal)
         ELSE IF ~parses(d.plain)
           THEN Result("read", "ValueError", ParseMessage, EmptyState, NoneVal,
                       NoneVal, NoneVal)
           ELSE Result("read", "ok", "", _load_state_json(d.plain), resp.ETag, NoneVal,
                       NoneVal)

\* a read that fetches a staged temporary object when the bucket holds one
read_staged_object(objs, up) ==
    LET staged == DOMAIN objs \ {StateKey}
        key == IF staged = {} THEN StateKey ELSE CHOOSE k \in staged : TRUE
        resp == IF up THEN get_object(objs, key) ELSE unavailable(objs) IN
    IF resp.err \in {"NoSuchKey", "404"}
      THEN Result("read", "ok", "", EmptyState, NoneVal, NoneVal, NoneVal)
    ELSE IF resp.err # ""
      THEN Result("read", "ClientError", resp.err, EmptyState, NoneVal, NoneVal, NoneVal)
    ELSE LET d == decrypt(FernetKey, resp.Body) IN
         IF ~d.ok
           THEN Result("read", "ValueError", DecryptMessage, EmptyState, NoneVal,
                       NoneVal, NoneVal)
         ELSE IF ~parses(d.plain)
           THEN Result("read", "ValueError", ParseMessage, EmptyState, NoneVal,
                       NoneVal, NoneVal)
           ELSE Result("read", "ok", "", _load_state_json(d.plain), resp.ETag, NoneVal,
                       NoneVal)

\* S3StateStore.read
read(objs, up) ==
    LET resp == IF up THEN get_object(objs, StateKey) ELSE unavailable(objs) IN
    IF resp.err \in {"NoSuchKey", "404"}
      THEN Result("read", "ok", "", EmptyState, NoneVal, NoneVal, NoneVal)
    ELSE IF resp.err # ""
      THEN Result("read", "ClientError", resp.err, EmptyState, NoneVal, NoneVal, NoneVal)
    ELSE LET d == decrypt(FernetKey, resp.Body) IN
         IF ~d.ok
           THEN Result("read", "ValueError", DecryptMessage, EmptyState, NoneVal,
                       NoneVal, NoneVal)
         ELSE IF ~parses(d.plain)
           THEN Result("read", "ValueError", ParseMessage, EmptyState, NoneVal,
                       NoneVal, NoneVal)
           ELSE Result("read", "ok", "", _load_state_json(d.plain), resp.ETag, NoneVal,
                       NoneVal)

\* a put that only creates: an existing object is left as it is
put_state_create_only(objs, body) ==
    IF StateKey \in DOMAIN objs
      THEN [s3 |-> objs, err |-> "", ETag |-> objs[StateKey].ETag]
      ELSE put_object(objs, StateKey, body)

\* a put that is refused when the state object already exists
put_state_if_absent(objs, body) ==
    IF StateKey \in DOMAIN objs
      THEN [s3 |-> objs, err |-> "PreconditionFailed", ETag |-> NoneVal]
      ELSE put_object(objs, StateKey, body)

\* the put_object call of write when if_match is None
put_state(objs, body) == put_object(objs, StateKey, body)

\* the ciphertext is staged on the state key itself
temp_key_is_state_key(n) == StateKey

\* every call stages under the same temporary key
temp_key_shared(n) == <<"state.json", ".tmp-", 0>>

\* temp_key = f"{self._obj.key}.tmp-{uuid4().hex}"
temp_key(n) == <<"state.json", ".tmp-", n>>

\* the copy sent without its IfMatch
commit_without_precondition(objs, temp, if_match) ==
    copy_object(objs, StateKey, temp, NoneVal)

\* a copy that is refused whatever the destination's ETag is
commit_always_refused(objs, temp, if_match) ==
    [s3 |-> objs, err |-> "PreconditionFailed", ETag |-> NoneVal]

\* the copy_object call of write
commit(objs, temp, if_match) == copy_object(objs, StateKey, temp, if_match)

\* the cleanup deletes the state object instead of the temporary one
cleanup_deletes_state_key(objs, temp) == delete_object(objs, StateKey)

\* the delete_object call in write's `finally`
cleanup(objs, temp) == delete_object(objs, temp)

StoreFresh ==
    /\ s3 \in { [x \in {} |-> <<>>],
                put_object([x \in {} |-> <<>>], StateKey,
                           encrypt(FernetKey, 0, _dump_state_json(EmptyState))).s3 }
    /\ nextId = 1
    /\ lastWriter = NoProc
    /\ spc = [p \in Procs |-> "idle"]
    /\ w_cipher = [p \in Procs |-> <<>>]
    /\ w_temp = [p \in Procs |-> <<>>]
    /\ w_pending = [p \in Procs |-> <<>>]
    /\ res = [p \in Procs |->
                Result("none", "ok", "", EmptyState, NoneVal, NoneVal, NoneVal)]
    /\ reqs = [p \in Procs |-> <<>>]

\* write is entered: dump, encrypt, choose the path (and the temporary key)
WriteBegin(p, state, if_match) ==
    /\ UNCHANGED <<limiterVars, clientVars>>
    /\ spc[p] = "idle"
    /\ w_cipher' = [w_cipher EXCEPT ![p] =
                      encrypt(FernetKey, nextId, _dump_state_json(state))]
    /\ w_temp' = [w_temp EXCEPT ![p] =
                      IF if_match = NoneVal THEN <<>> ELSE temp_key(nextId)]
    /\ nextId' = nextId + 1
    /\ spc' = [spc EXCEPT ![p] = IF if_match = NoneVal THEN "put" ELSE "stage"]
    /\ res' = [res EXCEPT ![p] =
                 Result("write", "running", "", state, NoneVal, if_match,
                        CurrentETag(s3))]
    /\ reqs' = [reqs EXCEPT ![p] = <<>>]
    /\ UNCHANGED <<s3, lastWriter, w_pending>>

\* the fast path: put_object on the state key, return its ETag
Put(p, up) ==
    /\ UNCHANGED <<limiterVars, clientVars>>
    /\ spc[p] = "put"
    /\ LET r == IF up THEN put_state(s3, w_cipher[p])
                             ELSE unavailable(s3) IN
        /\ s3' = r.s3
        /\ lastWriter' = IF r.err = "" THEN p ELSE lastWriter
        /\ res' = [res EXCEPT ![p] =
                     IF r.err = "" THEN [@ EXCEPT !.kind = "ok", !.etag = r.ETag]
                                   ELSE [@ EXCEPT !.kind = "ClientError", !.code = r.err]]
    /\ spc' = [spc EXCEPT ![p] = "idle"]
    /\ w_cipher' = [w_cipher EXCEPT ![p] = <<>>]
    /\ reqs' = [reqs EXCEPT ![p] = Append(@, <<"put_object", StateKey>>)]
    /\ UNCHANGED <<nextId, w_temp, w_pending>>

\* a write that goes on to the copy although its staging put raised
stage_failure_swallowed(p, up) ==
    /\ UNCHANGED <<limiterVars, clientVars>>
    /\ spc[p] = "stage"
    /\ s3' = IF up THEN put_object(s3, w_temp[p], w_cipher[p]).s3 ELSE s3
    /\ spc' = [spc EXCEPT ![p] = "copy"]
    /\ reqs' = [reqs EXCEPT ![p] = Append(@, <<"put_object", w_temp[p]>>)]
    /\ UNCHANGED <<nextId, lastWriter, w_pending, res, w_cipher, w_temp>>

\* put_object on the temporary key; a failure propagates before the try block
Stage(p, up) ==
    /\ UNCHANGED <<limiterVars, clientVars>>
    /\ spc[p] = "stage"
    /\ LET r == IF up THEN put_object(s3, w_temp[p], w_cipher[p])
                             ELSE unavailable(s3) IN
        /\ s3' = r.s3
        /\ IF r.err = ""
             THEN /\ spc' = [spc EXCEPT ![p] = "copy"]
                  /\ UNCHANGED <<res, w_cipher, w_temp>>
             ELSE /\ spc' = [spc EXCEPT ![p] = "idle"]
                  /\ res' = [res EXCEPT ![p] =
                               [@ EXCEPT !.kind = "ClientError", !.code = r.err]]
                  /\ w_cipher' = [w_cipher EXCEPT ![p] = <<>>]
                  /\ w_temp' = [w_temp EXCEPT ![p] = <<>>]
    /\ reqs' = [reqs EXCEPT ![p] = Append(@, <<"put_object", w_temp[p]>>)]
    /\ UNCHANGED <<nextId, lastWriter, w_pending>>

\* a try block that sends the copy a second time when the first did not get through
copy_retried_after_failure(p, up) ==
    /\ UNCHANGED <<limiterVars, clientVars>>
    /\ spc[p] = "copy"
    /\ LET r == commit(s3, w_temp[p], res[p].if_match) IN
        /\ s3' = r.s3
        /\ lastWriter' = IF r.err = "" THEN p ELSE lastWriter
        /\ w_pending' = [w_pending EXCEPT ![p] =
              IF r.err = "" THEN <<"ok", r.ETag, "">>
              ELSE IF r.err \in {"PreconditionFailed", "412"}
                     THEN <<"OptimisticLockError", NoneVal, r.err>>
                     ELSE <<"ClientError", NoneVal, r.err>>]
    /\ spc' = [spc EXCEPT ![p] = "cleanup"]
    /\ reqs' = [reqs EXCEPT ![p] =
                  IF up THEN Append(@, <<"copy_object", StateKey>>)
                        ELSE @ \o <<<<"copy_object", StateKey>>, <<"copy_object", StateKey>>>>]
    /\ UNCHANGED <<nextId, w_cipher, w_temp, res>>

\* the try block: copy_object with IfMatch, 412 mapped to OptimisticLockError
Copy(p, up) ==
    /\ UNCHANGED <<limiterVars, clientVars>>
    /\ spc[p] = "copy"
    /\ LET r == IF up THEN commit(s3, w_temp[p], res[p].if_match)
                             ELSE unavailable(s3) IN
        /\ s3' = r.s3
        /\ lastWriter' = IF r.err = "" THEN p ELSE lastWriter
        /\ w_pending' = [w_pending EXCEPT ![p] =
              IF r.err = "" THEN <<"ok", r.ETag, "">>
              ELSE IF r.err \in {"PreconditionFailed", "412"}
                     THEN <<"OptimisticLockError", NoneVal, r.err>>
                     ELSE <<"ClientError", NoneVal, r.err>>]
    /\ spc' = [spc EXCEPT ![p] = "cleanup"]
    /\ reqs' = [reqs EXCEPT ![p] = Append(@, <<"copy_object", StateKey>>)]
    /\ UNCHANGED <<nextId, w_cipher, w_temp, res>>

\* a `finally` whose failed delete_object replaces the outcome of the commit
cleanup_failure_propagates(p, up) ==
    /\ UNCHANGED <<limiterVars, clientVars>>
    /\ spc[p] = "cleanup"
    /\ s3' = IF up THEN cleanup(s3, w_temp[p]) ELSE s3
    /\ res' = [res EXCEPT ![p] =
                 IF up THEN [@ EXCEPT !.kind = w_pending[p][1], !.etag = w_pending[p][2],
                                      !.code = w_pending[p][3]]
                       ELSE [@ EXCEPT !.kind = "ClientError", !.etag = NoneVal,
                                      !.code = "ServiceUnavailable"]]
    /\ w_pending' = [w_pending EXCEPT ![p] = <<>>]
    /\ w_cipher' = [w_cipher EXCEPT ![p] = <<>>]
    /\ w_temp' = [w_temp EXCEPT ![p] = <<>>]
    /\ spc' = [spc EXCEPT ![p] = "idle"]
    /\ reqs' = [reqs EXCEPT ![p] = Append(@, <<"delete_object", w_temp[p]>>)]
    /\ UNCHANGED <<nextId, lastWriter>>

\* the finally block: best-effort delete of the temporary key, then the
\* return or the raise the try block produced
Cleanup(p, up) ==
    /\ UNCHANGED <<limiterVars, clientVars>>
    /\ spc[p] = "cleanup"
    /\ s3' = IF up THEN cleanup(s3, w_temp[p]) ELSE s3
    /\ res' = [res EXCEPT ![p] =
                 [@ EXCEPT !.kind = w_pending[p][1], !.etag = w_pending[p][2],
                           !.code = w_pending[p][3]]]
    /\ w_pending' = [w_pending EXCEPT ![p] = <<>>]
    /\ w_cipher' = [w_cipher EXCEPT ![p] = <<>>]
    /\ w_temp' = [w_temp EXCEPT ![p] = <<>>]
    /\ spc' = [spc EXCEPT ![p] = "idle"]
    /\ reqs' = [reqs EXCEPT ![p] = Append(@, <<"delete_object", w_temp[p]>>)]
    /\ UNCHANGED <<nextId, lastWriter>>

\* ------------------------------------------- clients of one S3StateStore

\* a client calls store.read()
ClientRead(p, up) ==
    /\ UNCHANGED <<limiterVars, clientVars, handlerVars>>
    /\ spc[p] = "idle"
    /\ res' = [res EXCEPT ![p] = read(s3, up)]
    /\ reqs' = [reqs EXCEPT ![p] = <<<<"get_object", StateKey>>>>]
    /\ UNCHANGED <<s3, nextId, lastWriter, spc, w_cipher, w_temp,
                   w_pending>>

\* a client calls store.write(state) or store.write(state, if_match=token) with
\* the token its last call returned, or the one it passed to its last write
ClientWrite(p) ==
    /\ nextId <= MaxWrites
    /\ UNCHANGED handlerVars
    /\ \E state \in SampleStates, if_match \in {NoneVal, res[p].etag, res[p].if_match} :
          WriteBegin(p, state, if_match)

NextStore ==
    \/ \E p \in Procs, up \in BOOLEAN : ClientRead(p, up)
    \/ \E p \in Procs : ClientWrite(p)
    \/ \E p \in Procs, up \in BOOLEAN : Put(p, up) /\ UNCHANGED handlerVars
    \/ \E p \in Procs, up \in BOOLEAN : Stage(p, up) /\ UNCHANGED handlerVars
    \/ \E p \in Procs, up \in BOOLEAN : Copy(p, up) /\ UNCHANGED handlerVars
    \/ \E p \in Procs, up \in BOOLEAN : Cleanup(p, up) /\ UNCHANGED handlerVars

\* the token of the state object a fresh bucket may hold
InitialToken == ETagOf(encrypt(FernetKey, 0, _dump_state_json(EmptyState)))

\* a client calls store.write(state, if_match=token) with a token that it
\* did not get from this bucket's object (the bucket may hold no object)
TokenWrite(p) ==
    /\ nextId <= MaxWrites
    /\ UNCHANGED handlerVars
    /\ \E state \in SampleStates : WriteBegin(p, state, InitialToken)

\* the clients of SpecStore over a backend that answers every delete_object
NextTidy ==
    \/ \E p \in Procs, up \in BOOLEAN : ClientRead(p, up)
    \/ \E p \in Procs : ClientWrite(p)
    \/ \E p \in Procs : TokenWrite(p)
    \/ \E p \in Procs, up \in BOOLEAN : Put(p, up) /\ UNCHANGED handlerVars
    \/ \E p \in Procs, up \in BOOLEAN : Stage(p, up) /\ UNCHANGED handlerVars
    \/ \E p \in Procs, up \in BOOLEAN : Copy(p, up) /\ UNCHANGED handlerVars
    \/ \E p \in Procs : Cleanup(p, TRUE) /\ UNCHANGED handlerVars

\* -------------------- clients that read, then write with the token read

\* store.read() followed by store.write(state, if_match=etag) with the etag
\* that read returned, as the handlers call the store
WriteAfterRead(p) ==
    /\ nextId <= MaxWrites
    /\ res[p].op = "read" /\ res[p].kind = "ok"
    /\ UNCHANGED handlerVars
    /\ \E state \in SampleStates : WriteBegin(p, state, res[p].etag)

NextReadWrite ==
    \/ \E p \in Procs, up \in BOOLEAN : ClientRead(p, up)
    \/ \E p \in Procs : WriteAfterRead(p)
    \/ \E p \in Procs, up \in BOOLEAN : Put(p, up) /\ UNCHANGED handlerVars
    \/ \E p \in Procs, up \in BOOLEAN : Stage(p, up) /\ UNCHANGED handlerVars
    \/ \E p \in Procs, up \in BOOLEAN : Copy(p, up) /\ UNCHANGED handlerVars
    \/ \E p \in Procs, up \in BOOLEAN : Cleanup(p, up) /\ UNCHANGED handlerVars

\* ------------------------- the stored bytes changed from outside the store

\* the body is a ciphertext write produced under the store's key
Genuine(body) ==
    /\ body = encrypt(FernetKey, body.iv, body.ct[4])
    /\ parses(body.ct[4])

TamperKinds == {"flip ciphertext", "flip iv", "flip hmac", "truncate", "append newline"}

\* the bytes of a stored token after one alteration
tampered(body, how) ==
    IF how = "flip ciphertext" THEN [body EXCEPT !.ct = Aes(FernetKey, body.iv, NotJson)]
    ELSE IF how = "flip iv" THEN [body EXCEPT !.iv = body.iv + 100]
    ELSE IF how = "flip hmac" THEN [body EXCEPT !.mac = Hmac(OtherKey, body.iv, body.ct)]
    ELSE IF how = "truncate" THEN [body EXCEPT !.cut = TRUE]
    ELSE [body EXCEPT !.b64 = "trailing newline"]

\* bytes of the object written by write are altered in the bucket
Tamper(how) ==
    /\ UNCHANGED <<limiterVars, clientVars, handlerVars>>
    /\ StateKey \in DOMAIN s3
    /\ Genuine(s3[StateKey].Body)
    /\ s3' = put_object(s3, StateKey, tampered(s3[StateKey].Body, how)).s3
    /\ lastWriter' = NoProc
    /\ UNCHANGED <<nextId, spc, w_cipher, w_temp, w_pending, res, reqs>>

\* another program puts an object under the state key: a token made under
\* some key, of a plaintext that is a State or is not
ForeignWrite(key, plaintext) ==
    /\ UNCHANGED <<limiterVars, clientVars, handlerVars>>
    /\ s3' = put_object(s3, StateKey, encrypt(key, 100, plaintext)).s3
    /\ lastWriter' = NoProc
    /\ UNCHANGED <<nextId, spc, w_cipher, w_temp, w_pending, res, reqs>>

\* the plaintexts another program encrypts: the dump of a State, or not JSON
ForeignPlaintexts == {NotJson} \cup {_dump_state_json(state) : state \in SampleStates}

\* clients read while the object under the state key is altered or replaced
NextCorrupt ==
    \/ \E p \in Procs, up \in BOOLEAN : ClientRead(p, up)
    \/ \E how \in TamperKinds : Tamper(how)
    \/ \E key \in {FernetKey, OtherKey}, plaintext \in ForeignPlaintexts :
          ForeignWrite(key, plaintext)

\* ------------------------------------- poller / eod / open handler runs

\* _dedup_key(symbol, date, "BUY_CANDIDATE") for the day's close
BuyKey(sym) == sym \o ":2025-09-05:BUY_CANDIDATE"

\* the open handler's f"{sym.upper()}:{open_c.ts.isoformat()}:OPEN_UPDATE"
OpenKey(sym) == sym \o ":2025-09-08:OPEN_UPDATE"

\* the symbols the market data makes a candidate in this model
Candidates == {"AAPL"}

\* a dedup check that finds no key marked
alert_never_sent(state, key) == FALSE

\* state.alerts_sent.get(key)
AlertSent(state, key) == key \in DOMAIN state.alerts_sent /\ state.alerts_sent[key]

\* state.alerts_sent[key] = True for every key of `keys`
MarkSent(state, keys) ==
    [state EXCEPT !.alerts_sent =
        [k \in DOMAIN state.alerts_sent \cup keys |->
            IF k \in keys THEN TRUE ELSE state.alerts_sent[k]]]

\* a send whose failure is not noticed: the keys are marked all the same
after_send_marks_anyway(state, keys, sendOk) == MarkSent(state, keys)

\* `try: tg.send_message(...) except TelegramError: continue`, then the marker
after_send(state, keys, sendOk) == IF sendOk THEN MarkSent(state, keys) ELSE state

InSeq(x, seq) == \E i \in 1..Len(seq) : seq[i] = x

\* list.sort() of a list of tickers
RECURSIVE SortTickers(_)
SortTickers(seq) ==
    IF seq = <<>> THEN <<>>
    ELSE LET first == CHOOSE i \in 1..Len(seq) :
                          \A j \in 1..Len(seq) :
                              \/ seq[i] = seq[j]
                              \/ (seq[i] = "AAPL" /\ seq[j] = "MSFT")
         IN <<seq[first]>> \o
            SortTickers([k \in 1..(Len(seq) - 1) |->
                            IF k < first THEN seq[k] ELSE seq[k + 1]])

\* a /buy that appends without looking whether the ticker is held
apply_buy_always_appends(state, ticker) ==
    [state EXCEPT !.held = SortTickers(Append(state.held, ticker))]

\* _apply_buy
_apply_buy(state, ticker) ==
    IF InSeq(ticker, state.held) THEN state
    ELSE [state EXCEPT !.held = SortTickers(Append(state.held, ticker))]

\* _apply_sell
_apply_sell(state, ticker) ==
    IF ~InSeq(ticker, state.held) THEN state
    ELSE [state EXCEPT !.held = SelectSeq(state.held, LAMBDA t : t # ticker)]

\* the command loop of the poller's run_once
RECURSIVE ApplyUpdates(_, _)
ApplyUpdates(state, updates) ==
    IF updates = <<>> THEN state
    ELSE LET u == Head(updates)
             next == IF u.cmd = "buy" THEN _apply_buy(state, u.ticker)
                     ELSE IF u.cmd = "sell" THEN _apply_sell(state, u.ticker)
                     ELSE state
         IN ApplyUpdates(next, Tail(updates))

\* _max_update_id
RECURSIVE _max_update_id(_)
_max_update_id(updates) ==
    IF updates = <<>> THEN NoneVal
    ELSE LET rest == _max_update_id(Tail(updates))
             uid == Head(updates).update_id
         IN IF rest = NoneVal THEN <<uid>> ELSE <<Max(uid, rest[1])>>

\* the chats that write to the bot, and the configured allowed_chat_ids
ChatIds == {123, 999}
AllowedChatIds == {123}

\* what getUpdates(offset=last_update_id + 1) can return: at most one update
\* here, with an update_id not below the offset (a command other than /buy
\* and /sell changes the state as a /sell of a ticker not held does: not at all)
UpdateBatches(state) ==
    {<<>>} \cup
    { <<[update_id |-> i, chat_id |-> c[1], cmd |-> c[2], ticker |-> t]>> :
        i \in { n \in 1..MaxUpdateId :
                  state.last_update_id = NoneVal \/ n > state.last_update_id[1] },
        c \in ChatIds \X {"buy", "sell"},
        t \in Tickers }

\* the acknowledgements the command loop collects and run_once then sends:
\* the chats they go to, in order
RECURSIVE Acks(_)
Acks(updates) ==
    IF updates = <<>> THEN <<>>
    ELSE <<Head(updates).chat_id>> \o Acks(Tail(updates))

\* an acknowledgement loop that lets the TelegramError of a send escape
send_acks_failure_aborts(state, acks, ackOk) ==
    [raised |-> acks # <<>> /\ ~ackOk,
     failed |-> acks # <<>> /\ ~ackOk,
     state  |-> state]

\* the acknowledgement loop: each send_message in its own try, a
\* TelegramError passed over; the state is not touched
send_acks(state, acks, ackOk) ==
    [raised |-> FALSE,
     failed |-> acks # <<>> /\ ~ackOk,
     state  |-> state]

HandlersFresh ==
    /\ hpc = [p \in Procs |-> "idle"]
    /\ hkind = [p \in Procs |-> "none"]
    /\ hstate = [p \in Procs |-> EmptyState]
    /\ hetag = [p \in Procs |-> NoneVal]
    /\ hupdates = [p \in Procs |-> <<>>]
    /\ alerts = [k \in DedupKeys |-> 0]
    /\ lostWrite = FALSE
    /\ ackFailed = [p \in Procs |-> FALSE]

\* run_once is left and its locals are gone
EndRun(p) ==
    /\ hpc' = [hpc EXCEPT ![p] = "done"]
    /\ hkind' = [hkind EXCEPT ![p] = "none"]
    /\ hstate' = [hstate EXCEPT ![p] = EmptyState]
    /\ hetag' = [hetag EXCEPT ![p] = NoneVal]
    /\ hupdates' = [hupdates EXCEPT ![p] = <<>>]
    /\ res' = [res EXCEPT ![p] =
                 Result("none", "ok", "", EmptyState, NoneVal, NoneVal, NoneVal)]
    /\ reqs' = [reqs EXCEPT ![p] = <<>>]

\* a run begins: eod and open return at once when the target chat is not in
\* the configured whitelist (the poller parses the whitelist and goes on);
\* then `state, etag = store.read()`, whose exception ends the run
HRead(p, kind, allowed, up) ==
    /\ UNCHANGED <<limiterVars, clientVars>>
    /\ hpc[p] = "idle"
    /\ spc[p] = "idle"
    /\ LET r == read(s3, up) IN
        IF (kind = "poller" \/ allowed) /\ r.kind = "ok"
          THEN /\ res' = [res EXCEPT ![p] = r]
               /\ hpc' = [hpc EXCEPT ![p] = "loaded"]
               /\ hkind' = [hkind EXCEPT ![p] = kind]
               /\ hstate' = [hstate EXCEPT ![p] = r.state]
               /\ hetag' = [hetag EXCEPT ![p] = r.etag]
               /\ reqs' = [reqs EXCEPT ![p] = <<<<"get_object", StateKey>>>>]
               /\ UNCHANGED hupdates
          ELSE EndRun(p)
    /\ ackFailed' = [ackFailed EXCEPT ![p] = FALSE]
    /\ UNCHANGED <<s3, nextId, lastWriter, spc, w_cipher, w_temp, w_pending>>
    /\ UNCHANGED <<alerts, lostWrite>>

\* after the handler's own work: go on to the write, or return without one
Proceed(p, state, updates, writes, failed) ==
    /\ ackFailed' = [ackFailed EXCEPT ![p] = failed]
    /\ IF writes
      THEN /\ hstate' = [hstate EXCEPT ![p] = state]
           /\ hupdates' = [hupdates EXCEPT ![p] = updates]
           /\ hpc' = [hpc EXCEPT ![p] = "write"]
           /\ UNCHANGED <<hkind, hetag, res, reqs>>
      ELSE EndRun(p)

\* poller: getUpdates, the command loop, the acknowledgements (sent or, with
\* ackOk false, failed), the new cursor; no write unless the cursor advances
\* (a getUpdates that raises ends the run as an empty batch does: without a
\* write)
PollerCompute(p, ackOk) ==
    /\ UNCHANGED <<limiterVars, clientVars>>
    /\ hpc[p] = "loaded"
    /\ hkind[p] = "poller"
    /\ \E updates \in UpdateBatches(hstate[p]) :
        LET acked == send_acks(ApplyUpdates(hstate[p], updates), Acks(updates), ackOk)
            applied == acked.state
            new_last == _max_update_id(updates)
            advanced == /\ new_last # NoneVal
                        /\ \/ applied.last_update_id = NoneVal
                           \/ new_last[1] > applied.last_update_id[1]
        IN IF acked.raised
             THEN EndRun(p) /\ ackFailed' = [ackFailed EXCEPT ![p] = TRUE]
             ELSE Proceed(p, IF advanced THEN [applied EXCEPT !.last_update_id = new_last]
                                         ELSE applied,
                          updates, advanced, acked.failed)
    /\ UNCHANGED <<s3, nextId, lastWriter, spc, w_cipher, w_temp, w_pending>>
    /\ UNCHANGED <<alerts, lostWrite>>

\* eod: `if not universe: return`
eod_skips(universe) == universe = <<>>

\* _parse_buy_candidate_keys: the symbols with a BUY_CANDIDATE key in alerts_sent
_parse_buy_candidate_keys(state) ==
    {s \in Tickers : BuyKey(s) \in DOMAIN state.alerts_sent}

\* an open run that goes on without prior candidates
open_never_skips(state) == FALSE

\* open: `if not candidates_by_symbol: return`
open_skips(state) == _parse_buy_candidate_keys(state) = {}

\* eod: the universe, then per candidate symbol the dedup check, the send and
\* the marker; an empty universe returns before any write
EodCompute(p) ==
    /\ UNCHANGED <<limiterVars, clientVars>>
    /\ hpc[p] = "loaded"
    /\ hkind[p] = "eod"
    /\ \E watchlist \in {<<>>, <<"AAPL">>}, sendOk \in BOOLEAN :
        LET universe == watchlist \o
                SelectSeq(hstate[p].held, LAMBDA t : ~InSeq(t, watchlist))
            found == {s \in Candidates : InSeq(s, universe)}
            fresh == {BuyKey(s) : s \in {x \in found : ~AlertSent(hstate[p], BuyKey(x))}}
        IN /\ Proceed(p, after_send(hstate[p], fresh, sendOk),
                      <<>>, ~eod_skips(universe), FALSE)
           /\ alerts' = [k \in DedupKeys |->
                           IF sendOk /\ k \in fresh THEN alerts[k] + 1 ELSE alerts[k]]
    /\ UNCHANGED <<s3, nextId, lastWriter, spc, w_cipher, w_temp, w_pending>>
    /\ UNCHANGED lostWrite

\* open: the symbols with a BUY_CANDIDATE key, then per symbol the dedup
\* check, the send and the marker; no prior candidate returns before any write
OpenCompute(p) ==
    /\ UNCHANGED <<limiterVars, clientVars>>
    /\ hpc[p] = "loaded"
    /\ hkind[p] = "open"
    /\ \E published \in BOOLEAN, sendOk \in BOOLEAN :
        LET prior == _parse_buy_candidate_keys(hstate[p])
            fresh == {OpenKey(s) : s \in {x \in prior : ~AlertSent(hstate[p], OpenKey(x))}}
        IN /\ Proceed(p, IF published THEN after_send(hstate[p], fresh, sendOk)
                                         ELSE hstate[p],
                      <<>>, ~open_skips(hstate[p]), FALSE)
           /\ alerts' = [k \in DedupKeys |->
                           IF published /\ sendOk /\ k \in fresh
                             THEN alerts[k] + 1 ELSE alerts[k]]
    /\ UNCHANGED <<s3, nextId, lastWriter, spc, w_cipher, w_temp, w_pending>>
    /\ UNCHANGED lostWrite

\* `store.write(state, if_match=etag)` is called
HTry(p) ==
    /\ hpc[p] = "write"
    /\ WriteBegin(p, hstate[p], hetag[p])
    /\ hpc' = [hpc EXCEPT ![p] = "tried"]
    /\ UNCHANGED <<hkind, hstate, hetag, hupdates, alerts, lostWrite, ackFailed>>

\* the write returned, or the fallback write returned or raised: the run is over
HDone(p) ==
    /\ UNCHANGED <<limiterVars, clientVars>>
    /\ hpc[p] \in {"tried", "fallback"}
    /\ spc[p] = "idle"
    /\ hpc[p] = "tried" => res[p].kind = "ok"
    /\ EndRun(p)
    /\ lostWrite' = (lostWrite \/ res[p].kind # "ok")
    /\ ackFailed' = [ackFailed EXCEPT ![p] = FALSE]
    /\ UNCHANGED alerts
    /\ UNCHANGED <<s3, nextId, lastWriter, spc, w_cipher, w_temp, w_pending>>

\* `except Exception: store.write(state)`: whatever the first write raised,
\* the same state is written again without if_match
HFallback(p) ==
    /\ hpc[p] = "tried"
    /\ spc[p] = "idle"
    /\ res[p].kind # "ok"
    /\ WriteBegin(p, hstate[p], NoneVal)
    /\ hpc' = [hpc EXCEPT ![p] = "fallback"]
    /\ UNCHANGED <<hkind, hstate, hetag, hupdates, alerts, lostWrite, ackFailed>>

NextHandlers ==
    \/ \E p \in Procs, kind \in {"poller", "eod", "open"},
          allowed \in BOOLEAN, up \in BOOLEAN :
          HRead(p, kind, allowed, up)
    \/ \E p \in Procs : PollerCompute(p, TRUE)
    \/ \E p \in Procs : EodCompute(p)
    \/ \E p \in Procs : OpenCompute(p)
    \/ \E p \in Procs : HTry(p)
    \/ \E p \in Procs : HFallback(p)
    \/ \E p \in Procs : HDone(p)
    \/ \E p \in Procs, up \in BOOLEAN : Put(p, up) /\ UNCHANGED handlerVars
    \/ \E p \in Procs, up \in BOOLEAN : Stage(p, up) /\ UNCHANGED handlerVars
    \/ \E p \in Procs, up \in BOOLEAN : Copy(p, up) /\ UNCHANGED handlerVars
    \/ \E p \in Procs, up \in BOOLEAN : Cleanup(p, up) /\ UNCHANGED handlerVars

\* ------------------------------- independent encode calls on State values

\* State values as the model class admits them: held is a List[str] (here
\* without repeats, in any order), alerts_sent a Dict[str, bool],
\* last_update_id an Optional[int]
HeldLists ==
    {<<>>} \cup {<<a>> : a \in Tickers}
           \cup {<<ab[1], ab[2]>> : ab \in {x \in Tickers \X Tickers : x[1] # x[2]}}

MarkerMaps ==
    { [k \in {} |-> TRUE],
      [k \in {"AAPL:2025-09-05:BUY_CANDIDATE"} |-> TRUE],
      [k \in {"AAPL:2025-09-05:BUY_CANDIDATE", "MSFT:2025-09-05:BUY_CANDIDATE"} |->
          k = "MSFT:2025-09-05:BUY_CANDIDATE"] }

StateValues ==
    [held : HeldLists, alerts_sent : MarkerMaps,
     last_update_id : {NoneVal} \cup {<<n>> : n \in 1..MaxUpdateId}]

\* `plaintext = _dump_state_json(state)`, `ciphertext = self._fernet.encrypt(plaintext)`
\* of a write of the State value the process holds
Encode(p) ==
    /\ WriteBegin(p, hstate[p], NoneVal)
    /\ UNCHANGED handlerVars

NextCodec == \E p \in Procs : Encode(p)

\* --------------------------------- handler runs that never overlap

\* one function instance runs the invocations, one after the other
Runner == "p1"

\* the scheduler invokes the function again
Schedule ==
    /\ hpc[Runner] = "done"
    /\ nextId <= MaxBegun
    /\ hpc' = [hpc EXCEPT ![Runner] = "idle"]
    /\ UNCHANGED <<hkind, hstate, hetag, hupdates, alerts, lostWrite, ackFailed>>
    /\ UNCHANGED <<limiterVars, storeVars, clientVars>>

NextSequential ==
    \/ \E kind \in {"poller", "eod", "open"}, allowed \in BOOLEAN, up \in BOOLEAN :
          HRead(Runner, kind, allowed, up)
    \/ Schedule
    \/ \E ackOk \in BOOLEAN : PollerCompute(Runner, ackOk)
    \/ EodCompute(Runner)
    \/ OpenCompute(Runner)
    \/ HTry(Runner)
    \/ HFallback(Runner)
    \/ HDone(Runner)
    \/ \E up \in BOOLEAN : Put(Runner, up) /\ UNCHANGED handlerVars
    \/ \E up \in BOOLEAN : Stage(Runner, up) /\ UNCHANGED handlerVars
    \/ \E up \in BOOLEAN : Copy(Runner, up) /\ UNCHANGED handlerVars
    \/ \E up \in BOOLEAN : Cleanup(Runner, up) /\ UNCHANGED handlerVars

\* ------------------ the command loop of one poller run, update by update

\* the states a poller run may have read: any held list without repeats
HeldStates == {[EmptyState EXCEPT !.held = h] : h \in HeldLists}

\* the run has read the stored state and is about to go through its updates
CommandsBegin ==
    /\ s3 \in {put_state([x \in {} |-> <<>>],
                         encrypt(FernetKey, 0, _dump_state_json(st))).s3 :
                 st \in HeldStates}
    /\ nextId = 1
    /\ lastWriter = NoProc
    /\ spc = [p \in Procs |-> "idle"]
    /\ w_cipher = [p \in Procs |-> <<>>]
    /\ w_temp = [p \in Procs |-> <<>>]
    /\ w_pending = [p \in Procs |-> <<>>]
    /\ res = [p \in Procs |->
                IF p = Runner THEN read(s3, TRUE)
                ELSE Result("none", "ok", "", EmptyState, NoneVal, NoneVal, NoneVal)]
    /\ reqs = [p \in Procs |->
                IF p = Runner THEN <<<<"get_object", StateKey>>>> ELSE <<>>]
    /\ hpc = [p \in Procs |-> IF p = Runner THEN "loaded" ELSE "idle"]
    /\ hkind = [p \in Procs |-> IF p = Runner THEN "poller" ELSE "none"]
    /\ hstate = [p \in Procs |-> IF p = Runner THEN res[p].state ELSE EmptyState]
    /\ hetag = [p \in Procs |-> IF p = Runner THEN res[p].etag ELSE NoneVal]
    /\ hupdates = [p \in Procs |-> <<>>]
    /\ alerts = [k \in DedupKeys |-> 0]
    /\ lostWrite = FALSE
    /\ ackFailed = [p \in Procs |-> FALSE]

\* one pass of `for upd in updates` over a /buy or /sell update
Command(cmd, ticker) ==
    /\ Len(hupdates[Runner]) < MaxCommands
    /\ hpc[Runner] = "loaded" /\ hkind[Runner] = "poller"
    /\ LET u == [update_id |-> Len(hupdates[Runner]) + 1, chat_id |-> 123,
                 cmd |-> cmd, ticker |-> ticker] IN
        /\ hstate' = [hstate EXCEPT ![Runner] = ApplyUpdates(@, <<u>>)]
        /\ hupdates' = [hupdates EXCEPT ![Runner] = Append(@, u)]
    /\ UNCHANGED <<hpc, hkind, hetag, alerts, lostWrite, ackFailed>>
    /\ UNCHANGED <<limiterVars, storeVars, clientVars>>

NextCommands == \E cmd \in {"buy", "sell"}, ticker \in Tickers : Command(cmd, ticker)

\* ----------------------- a read-modify-write retry loop over read and write

\* the process that runs the loop, and the one whose writes compete with it
Writer == "p1"
Competitor == "p2"

\* the loop is at a point where it calls read: at its start, and again after
\* a write that raised OptimisticLockError
RetryMustRead ==
    \/ hpc[Writer] = "idle"
    \/ /\ hpc[Writer] \in {"tried", "retried"}
       /\ spc[Writer] = "idle"
       /\ res[Writer].kind = "OptimisticLockError"

\* `state, etag = store.read()`; an exception of read leaves the loop
RetryRead(up) ==
    /\ UNCHANGED <<limiterVars, clientVars>>
    /\ RetryMustRead
    /\ LET r == read(s3, up) IN
        /\ res' = [res EXCEPT ![Writer] = r]
        /\ hpc' = [hpc EXCEPT ![Writer] =
                     IF r.kind # "ok" THEN "failed"
                     ELSE IF hpc[Writer] = "idle" THEN "loaded" ELSE "reloaded"]
        /\ hstate' = [hstate EXCEPT ![Writer] = r.state]
        /\ hetag' = [hetag EXCEPT ![Writer] = r.etag]
    /\ reqs' = [reqs EXCEPT ![Writer] = <<<<"get_object", StateKey>>>>]
    /\ UNCHANGED <<s3, nextId, lastWriter, spc, w_cipher, w_temp, w_pending, hkind>>
    /\ UNCHANGED <<hupdates, alerts, lostWrite, ackFailed>>

\* the state read is modified and `store.write(state, if_match=etag)` is called
RetryWrite ==
    /\ hpc[Writer] \in {"loaded", "reloaded"}
    /\ \E state \in SampleStates :
          /\ WriteBegin(Writer, state, hetag[Writer])
          /\ hstate' = [hstate EXCEPT ![Writer] = state]
    /\ hpc' = [hpc EXCEPT ![Writer] =
                 IF hpc[Writer] = "loaded" THEN "tried" ELSE "retried"]
    /\ UNCHANGED <<hkind, hetag, hupdates, alerts, lostWrite, ackFailed>>

\* one step of the loop, the requests of its write included
WriterStep ==
    \/ \E up \in BOOLEAN : RetryRead(up)
    \/ RetryWrite
    \/ \E up \in BOOLEAN : Put(Writer, up) /\ UNCHANGED handlerVars
    \/ \E up \in BOOLEAN : Stage(Writer, up) /\ UNCHANGED handlerVars
    \/ \E up \in BOOLEAN : Copy(Writer, up) /\ UNCHANGED handlerVars
    \/ \E up \in BOOLEAN : Cleanup(Writer, up) /\ UNCHANGED handlerVars

\* the competitor writes as a client of the store does, without if_match or
\* with a token an earlier write of its own returned; the number of writes it
\* begins is bounded, and its requests reach the backend (a write that fails
\* on the way competes with nothing)
CompetitorStep ==
    \/ ClientWrite(Competitor)
    \/ Put(Competitor, TRUE) /\ UNCHANGED handlerVars
    \/ Stage(Competitor, TRUE) /\ UNCHANGED handlerVars
    \/ Copy(Competitor, TRUE) /\ UNCHANGED handlerVars
    \/ Cleanup(Competitor, TRUE) /\ UNCHANGED handlerVars

NextRetry == WriterStep \/ CompetitorStep

\* ------------------------------------------------------- specifications

\* ------------- common/cache.py and alpha_vantage.py: daily_if_changed

\* the symbols daily_if_changed is called with, and the provider's newest dates
Symbols == {"AAPL", "aapl", "MSFT"}
Dates == 1..MaxDate

\* str.upper()
upper(symbol) == IF symbol = "aapl" THEN "AAPL" ELSE symbol

\* a cache key that leaves the adjusted flag out
key_without_flag(symbol, adjusted) == <<upper(symbol), "adj">>

\* SymbolUpdateCache._key: "{SYMBOL}:{adj|raw}"
_key(symbol, adjusted) == <<upper(symbol), IF adjusted THEN "adj" ELSE "raw">>

CacheKeys == {upper(s) : s \in Symbols} \X {"adj", "raw"}

\* get_last_refreshed: the entry's last_refreshed, None without an entry
get_last_refreshed(data, symbol, adjusted) == data[_key(symbol, adjusted)]

\* set_last_refreshed: the entry of this key is replaced (and the file saved)
set_last_refreshed(data, symbol, adjusted, last_refreshed) ==
    [data EXCEPT ![_key(symbol, adjusted)] = <<last_refreshed>>]

\* daily_if_changed after _request returned a payload whose newest date is
\* newest; parses tells whether _parse_daily_payload accepts the payload
daily_if_changed(data, symbol, adjusted, newest, parses_ok) ==
    LET prev == get_last_refreshed(data, symbol, adjusted) IN
    IF prev # NoneVal /\ prev = <<newest>>
      THEN [data |-> set_last_refreshed(data, symbol, adjusted, prev[1]),
            ret  |-> "None"]
    ELSE IF ~parses_ok
      THEN [data |-> data, ret |-> "AlphaVantageApiError"]
      ELSE [data |-> set_last_refreshed(data, symbol, adjusted, newest),
            ret  |-> "candles"]

NoCall == [symbol |-> "", adjusted |-> FALSE, newest |-> 0, ret |-> "none"]

CacheFresh ==
    /\ cache_data = [k \in CacheKeys |-> NoneVal]
    /\ dres = NoCall

\* one daily_if_changed call; a _request that raises ends the call before
\* the cache is looked at
DailyIfChanged(symbol, adjusted, newest, request_ok, parses_ok) ==
    /\ UNCHANGED <<limiterVars, storeVars, handlerVars>>
    /\ UNCHANGED <<cpc, attempt, backoff, resumeAt, raised, sent, ctor>>
    /\ IF request_ok
         THEN LET r == daily_if_changed(cache_data, symbol, adjusted, newest, parses_ok) IN
              /\ cache_data' = r.data
              /\ dres' = [symbol |-> symbol, adjusted |-> adjusted,
                          newest |-> newest, ret |-> r.ret]
         ELSE /\ cache_data' = cache_data
              /\ dres' = [symbol |-> symbol, adjusted |-> adjusted,
                          newest |-> newest, ret |-> "AlphaVantageError"]

NextCache ==
    \E symbol \in Symbols, adjusted \in BOOLEAN, newest \in Dates,
       request_ok \in BOOLEAN, parses_ok \in BOOLEAN :
        DailyIfChanged(symbol, adjusted, newest, request_ok, parses_ok)

\* ------------------------------------- common/alpha_vantage.py: _request

MaxAttempts == 4     \* `while attempt < 4`
FirstBackoff == 1    \* `backoff = 1.0`
BackoffCap == 8      \* `backoff = min(backoff * 2, 8.0)`

\* what the server (or the network) does with one GET
Responses == {"200", "transient", "fatal"}

ClientsIdle ==
    /\ cpc = [t \in Threads |-> "idle"]
    /\ attempt = [t \in Threads |-> 0]
    /\ backoff = [t \in Threads |-> 0]
    /\ resumeAt = [t \in Threads |-> 0]
    /\ raised = [t \in Threads |-> "none"]
    /\ sent = [u \in 0..MaxTime |-> 0]
    /\ ctor = <<>>
    /\ CacheFresh

\* _request is called: `self._limiter.acquire(blocking=True)` begins
RequestBegin(t) ==
    /\ UNCHANGED <<storeVars, handlerVars>>
    /\ cpc[t] = "idle"
    /\ tpc[t] = "idle"
    /\ cpc' = [cpc EXCEPT ![t] = "acquire"]
    /\ raised' = [raised EXCEPT ![t] = "none"]
    /\ tpc' = [tpc EXCEPT ![t] = "enter"]
    /\ blocking' = [blocking EXCEPT ![t] = TRUE]
    /\ outcome' = [outcome EXCEPT ![t] = "none"]
    /\ cancelReq' = [cancelReq EXCEPT ![t] = FALSE]
    /\ UNCHANGED <<max_calls, per_seconds, events, lock, clock, now, delay, wakeAt,
                   admitted>>
    /\ UNCHANGED <<attempt, backoff, resumeAt, sent, ctor, cacheVars>>

\* acquire returned: `attempt = 0`, `backoff = 1.0`, the loop is entered
RequestAdmitted(t) ==
    /\ UNCHANGED <<limiterVars, storeVars, handlerVars>>
    /\ cpc[t] = "acquire"
    /\ tpc[t] = "idle"
    /\ outcome[t] = "admitted"
    /\ cpc' = [cpc EXCEPT ![t] = "send"]
    /\ attempt' = [attempt EXCEPT ![t] = 0]
    /\ backoff' = [backoff EXCEPT ![t] = FirstBackoff]
    /\ UNCHANGED <<resumeAt, raised, sent, ctor, cacheVars>>

\* one pass of the loop body: `self._client.get(...)` sends a request; 200
\* returns the payload, a timeout, transport error or 429/5xx goes to the retry
\* path (`attempt += 1`, `time.sleep(backoff)`, backoff doubled), any other
\* status raises AlphaVantageApiError
Send(t, resp) ==
    /\ UNCHANGED <<limiterVars, storeVars, handlerVars>>
    /\ cpc[t] = "send"
    /\ sent' = [sent EXCEPT ![clock] = @ + 1]
    /\ UNCHANGED <<ctor, cacheVars>>
    /\ CASE resp = "200" ->
              /\ cpc' = [cpc EXCEPT ![t] = "idle"]
              /\ raised' = [raised EXCEPT ![t] = "payload"]
              /\ attempt' = [attempt EXCEPT ![t] = 0]
              /\ backoff' = [backoff EXCEPT ![t] = 0]
              /\ UNCHANGED resumeAt
         [] resp = "fatal" ->
              /\ cpc' = [cpc EXCEPT ![t] = "idle"]
              /\ raised' = [raised EXCEPT ![t] = "AlphaVantageApiError"]
              /\ attempt' = [attempt EXCEPT ![t] = 0]
              /\ backoff' = [backoff EXCEPT ![t] = 0]
              /\ UNCHANGED resumeAt
         [] resp = "transient" ->
              /\ cpc' = [cpc EXCEPT ![t] = "backoff"]
              /\ attempt' = [attempt EXCEPT ![t] = @ + 1]
              /\ resumeAt' = [resumeAt EXCEPT ![t] = clock + backoff[t]]
              /\ backoff' = [backoff EXCEPT ![t] = Min(backoff[t] * 2, BackoffCap)]
              /\ UNCHANGED raised

\* a loop that tests `attempt <= 4`: one attempt more
after_backoff_one_more(t) ==
    /\ UNCHANGED <<limiterVars, storeVars, handlerVars>>
    /\ cpc[t] = "backoff"
    /\ resumeAt' = [resumeAt EXCEPT ![t] = 0]
    /\ IF attempt[t] <= MaxAttempts
         THEN /\ cpc' = [cpc EXCEPT ![t] = "send"]
              /\ UNCHANGED <<attempt, backoff, raised>>
         ELSE /\ cpc' = [cpc EXCEPT ![t] = "idle"]
              /\ raised' = [raised EXCEPT ![t] = "AlphaVantageError"]
              /\ attempt' = [attempt EXCEPT ![t] = 0]
              /\ backoff' = [backoff EXCEPT ![t] = 0]
    /\ UNCHANGED <<sent, ctor, cacheVars>>

\* time.sleep(backoff) has returned; `while attempt < 4` is tested again and
\* the loop either sends the next attempt or ends in AlphaVantageError
AfterBackoff(t) ==
    /\ UNCHANGED <<limiterVars, storeVars, handlerVars>>
    /\ cpc[t] = "backoff"
    /\ resumeAt' = [resumeAt EXCEPT ![t] = 0]
    /\ IF attempt[t] < MaxAttempts
         THEN /\ cpc' = [cpc EXCEPT ![t] = "send"]
              /\ UNCHANGED <<attempt, backoff, raised>>
         ELSE /\ cpc' = [cpc EXCEPT ![t] = "idle"]
              /\ raised' = [raised EXCEPT ![t] = "AlphaVantageError"]
              /\ attempt' = [attempt EXCEPT ![t] = 0]
              /\ backoff' = [backoff EXCEPT ![t] = 0]
    /\ UNCHANGED <<sent, ctor, cacheVars>>

\* time.sleep(backoff) returns once the clock has reached the end of the sleep
Resume(t) == clock >= resumeAt[t] /\ AfterBackoff(t)

NextClient ==
    \/ \E t \in Threads : RequestBegin(t)
    \/ \E t \in Threads : Enter(t)
    \/ \E t \in Threads : Check(t)
    \/ \E t \in Threads : Sleep(t)
    \/ \E t \in Threads : Wake(t)
    \/ \E t \in Threads : RequestAdmitted(t)
    \/ \E t \in Threads, resp \in Responses : Send(t, resp)
    \/ \E t \in Threads : Resume(t)
    \/ Tick


\* the limiter while nothing uses it
LimiterUnused ==
    /\ max_calls = 1
    /\ per_seconds = 1
    /\ events = <<>>
    /\ lock = NoThread
    /\ clock = 0
    /\ tpc = [t \in Threads |-> "idle"]
    /\ blocking = [t \in Threads |-> FALSE]
    /\ now = [t \in Threads |-> 0]
    /\ delay = [t \in Threads |-> 0]
    /\ wakeAt = [t \in Threads |-> 0]
    /\ outcome = [t \in Threads |-> "none"]
    /\ cancelReq = [t \in Threads |-> FALSE]
    /\ admitted = [u \in 0..MaxTime |-> 0]
    /\ ClientsIdle

InitLimiter ==
    /\ LimiterConstructed /\ ClientsIdle
    /\ StoreFresh /\ s3 = [x \in {} |-> <<>>] /\ HandlersFresh
SpecLimiter == InitLimiter /\ [][NextLimiter]_vars

InitStore == StoreFresh /\ LimiterUnused /\ HandlersFresh
SpecStore == InitStore /\ [][NextStore]_vars

SpecReadWrite == InitStore /\ [][NextReadWrite]_vars

SpecTidy == InitStore /\ [][NextTidy]_vars

InitHandlers == StoreFresh /\ LimiterUnused /\ HandlersFresh
SpecHandlers == InitHandlers /\ [][NextHandlers]_vars

InitSequential == StoreFresh /\ LimiterUnused /\ HandlersFresh
SpecSequential == InitSequential /\ [][NextSequential]_vars

InitConstruct ==
    /\ LimiterAbsent /\ ClientsIdle
    /\ StoreFresh /\ s3 = [x \in {} |-> <<>>] /\ HandlersFresh
SpecConstruct == InitConstruct /\ [][NextConstruct]_vars

InitCodec ==
    /\ StoreFresh /\ s3 = [x \in {} |-> <<>>] /\ LimiterUnused
    /\ hpc = [p \in Procs |-> "idle"]
    /\ hkind = [p \in Procs |-> "none"]
    /\ hstate \in [Procs -> StateValues]
    /\ hetag = [p \in Procs |-> NoneVal]
    /\ hupdates = [p \in Procs |-> <<>>]
    /\ alerts = [k \in DedupKeys |-> 0]
    /\ lostWrite = FALSE
    /\ ackFailed = [p \in Procs |-> FALSE]
SpecCodec == InitCodec /\ [][NextCodec]_vars

InitCommands == CommandsBegin /\ LimiterUnused
SpecCommands == InitCommands /\ [][NextCommands]_vars

InitCorrupt == StoreFresh /\ LimiterUnused /\ HandlersFresh
SpecCorrupt == InitCorrupt /\ [][NextCorrupt]_vars

InitClient ==
    /\ LimiterConstructed /\ ClientsIdle
    /\ StoreFresh /\ s3 = [x \in {} |-> <<>>] /\ HandlersFresh
SpecClient == InitClient /\ [][NextClient]_vars

SpecCache == InitClient /\ [][NextCache]_vars

\* the loop is one sequential thread of control: it keeps taking its steps
InitRetry == StoreFresh /\ LimiterUnused /\ HandlersFresh
SpecRetry == InitRetry /\ [][NextRetry]_vars /\ WF_vars(WriterStep)

\* ------------------------------------------------ rate limiter: claims

RECURSIVE SumAdmitted(_)
SumAdmitted(S) ==
    IF S = {} THEN 0
    ELSE LET u == CHOOSE x \in S : TRUE IN admitted[u] + SumAdmitted(S \ {u})

\* calls admitted with a timestamp in the trailing window (t - W, t]
WindowCount(t) == SumAdmitted({u \in 0..MaxTime : t - per_seconds < u /\ u <= t})

TotalAdmitted == SumAdmitted(0..MaxTime)

\* ------------------------------ rate_limiter.py under a fair scheduler
\* SpecLive: finitely many acquire calls on one limiter while the clock keeps
\* advancing.  The clock is kept in 0..MaxTime by counting from a later
\* origin once it has reached MaxTime: every timestamp moves down with it.  A
\* timestamp that would fall below 0 is MaxTime or more seconds old, which is
\* at least per_seconds, so any later call prunes it wherever below 0 it lies.

\* acquire is called while fewer than MaxCalls calls were admitted or are running
CallLive(t, b) ==
    /\ TotalAdmitted + Cardinality({u \in Threads : tpc[u] # "idle"}) < MaxCalls
    /\ Call(t, b)

Earlier(x) == IF x > 0 THEN x - 1 ELSE 0

\* the clock advances at MaxTime: the origin moves one second forward.  No
\* thread is between its clock read and its check, so no thread works with a
\* clock value that is MaxTime seconds old.
Rebase ==
    /\ UNCHANGED <<storeVars, handlerVars, clientVars>>
    /\ clock = MaxTime
    /\ lock = NoThread
    /\ events' = [i \in 1..Len(events) |-> Earlier(events[i])]
    /\ wakeAt' = [t \in Threads |-> Earlier(wakeAt[t])]
    /\ admitted' = [u \in 0..MaxTime |->
                       IF u = 0 THEN admitted[0] + admitted[1]
                       ELSE IF u = MaxTime THEN 0 ELSE admitted[u + 1]]
    /\ UNCHANGED <<max_calls, per_seconds, lock, clock, tpc, blocking, now, delay,
                   outcome, cancelReq>>

\* the monotonic clock advances, before or after it has reached MaxTime
Advance == Tick \/ Rebase

\* one step of thread t inside acquire
ThreadStep(t) == Enter(t) \/ Check(t) \/ Raise(t) \/ Sleep(t) \/ Wake(t)

NextLive ==
    \/ \E t \in Threads, b \in BOOLEAN : CallLive(t, b)
    \/ \E t \in Threads : Enter(t)
    \/ \E t \in Threads : Check(t)
    \/ \E t \in Threads : Raise(t)
    \/ \E t \in Threads : Sleep(t)
    \/ \E t \in Threads : Wake(t)
    \/ Tick
    \/ Rebase

\* the clock keeps advancing, and a thread that can take its next step takes
\* it; threading.Lock promises no order among the threads waiting for it, so
\* the fairness of Enter is the weak one as well
SpecLive ==
    /\ InitLimiter
    /\ [][NextLive]_vars
    /\ SF_vars(Advance)
    /\ \A t \in Threads : WF_vars(ThreadStep(t))

\* ------------------------------------- one client request after the other
\* SpecRequest: at most MaxRequests _request calls of one thread, one after the
\* other, on a limiter nobody else uses.  The clock of the model stops at MaxTime, which
\* the backoffs of one request (1 + 2 + 4 + 8 s) exceed, so here a backoff
\* sleep returns at an unspecified time: AfterBackoff without the clock.
Requester == "t1"

\* _request is called while fewer than MaxRequests calls were admitted
RequestBeginBounded ==
    /\ TotalAdmitted < MaxRequests
    /\ RequestBegin(Requester)

NextRequest ==
    \/ RequestBeginBounded
    \/ Enter(Requester)
    \/ Check(Requester)
    \/ Sleep(Requester)
    \/ Wake(Requester)
    \/ RequestAdmitted(Requester)
    \/ \E resp \in Responses : Send(Requester, resp)
    \/ AfterBackoff(Requester)
    \/ Tick

SpecRequest == InitClient /\ [][NextRequest]_vars

FirstAdmission == CHOOSE u \in 0..MaxTime :
    admitted[u] > 0 /\ \A x \in 0..MaxTime : admitted[x] > 0 => u <= x

\* the step in which thread t runs the locked body of acquire
CheckStep(t) == tpc[t] = "locked" /\ tpc'[t] # "locked"

\* C1: whatever the threads do, blocking or not, the calls admitted with a
\* timestamp in any trailing window of per_seconds never number more than
\* max_calls.
C1_AtMostNPerWindow == \A t \in 0..MaxTime : WindowCount(t) <= max_calls

\* a window was full, and after it expired further calls were admitted
C1_Witness ==
    /\ \E t \in 0..MaxTime : WindowCount(t) = max_calls
    /\ TotalAdmitted > max_calls

\* C8: from the empty limiter the first max_calls acquires are admitted; the
\* next one, made less than per_seconds after the first admission, is denied
\* and, being non-blocking, raises RateLimitError; an acquire made once the
\* clock is per_seconds past the oldest recorded admission is admitted.
C8_FillDenyThenReopen ==
    /\ [][\A t \in Threads : CheckStep(t) =>
            /\ (TotalAdmitted < max_calls => outcome'[t] = "admitted")
            /\ (TotalAdmitted = max_calls /\ now[t] < FirstAdmission + per_seconds
                    => tpc'[t] = "denied")
            /\ (events # <<>> /\ now[t] >= Head(events) + per_seconds
                    => outcome'[t] = "admitted")]_vars
    /\ [][\A t \in Threads :
            (tpc[t] = "denied" /\ ~blocking[t] /\ tpc'[t] # "denied")
                => (tpc'[t] = "idle" /\ outcome'[t] = "RateLimitError")]_vars

\* a non-blocking call was refused on a full window, and a call was admitted
\* after the clock passed the oldest admission by per_seconds
C8_Witness ==
    /\ \E t \in Threads : outcome[t] = "RateLimitError"
    /\ TotalAdmitted > max_calls
    /\ clock >= FirstAdmission + per_seconds

\* the recorded timestamps that lie inside the window ending at t
InWindow(ev, t) == SelectSeq(ev, LAMBDA u : u > t - per_seconds)

\* C9: a denied non-blocking acquire never sleeps and records nothing: the
\* timestamps inside the window are the same after it as before, the history
\* of admissions is unchanged, and every later acquire is admitted or denied
\* exactly as it would have been without the denied call.
C9_DeniedRecordsNothing ==
    /\ [][\A t \in Threads :
            (CheckStep(t) /\ ~blocking[t] /\ tpc'[t] = "denied") =>
                /\ InWindow(events', now[t]) = InWindow(events, now[t])
                /\ admitted' = admitted
                /\ \A u \in now[t]..MaxTime :
                     acquire_locked(events', u, max_calls, per_seconds).admit
                       = acquire_locked(events, u, max_calls, per_seconds).admit]_vars
    /\ [][\A t \in Threads :
            (tpc[t] = "denied" /\ ~blocking[t] /\ tpc'[t] # "denied") =>
                /\ outcome'[t] = "RateLimitError"
                /\ events' = events
                /\ admitted' = admitted]_vars
    /\ [](\A t \in Threads : tpc[t] = "sleeping" => blocking[t])

\* a non-blocking call has been refused while timestamps were on record
C9_Witness ==
    \E t \in Threads :
        /\ outcome[t] = "RateLimitError"
        /\ ~blocking[t]
        /\ Len(events) = max_calls

\* C10: a blocking acquire for which cancellation was requested while it
\* waited abandons the wait: it never goes on to record a timestamp and
\* return as admitted.
C10_CancelledNeverAdmitted ==
    \A t \in Threads : ~(cancelReq[t] /\ outcome[t] = "admitted")

\* C25: the clock read, the prune, the capacity check and the append of one
\* acquire are not interleaved with those of another: at most one thread is
\* inside the locked body, the window and the admissions do not change under
\* a thread that is inside it, and so the window never holds more than
\* max_calls timestamps: one free slot admits one caller.
C25_LockedBodyAtomic ==
    /\ [](\A t, u \in Threads :
            (tpc[t] = "locked" /\ tpc[u] = "locked") => (t = u /\ lock = t))
    /\ [][\A t \in Threads :
            (tpc[t] = "locked" /\ tpc'[t] = "locked")
                => (events' = events /\ admitted' = admitted)]_vars
    /\ [](Len(events) <= max_calls)

\* two threads went for the last free slot at the same clock value: one was
\* admitted and the other found the window full
C25_Witness ==
    \E t, u \in Threads :
        /\ t # u
        /\ outcome[t] = "admitted" /\ tpc[t] = "idle"
        /\ tpc[u] = "denied"
        /\ Len(events) = max_calls
        /\ events[Len(events)] = clock
        /\ TotalAdmitted = max_calls

\* C26: while the clock keeps advancing and finitely many acquires are
\* issued, every blocking acquire eventually returns admitted; a blocking
\* acquire returns only from the step that records its own timestamp as the
\* newest of the window, and it never raises RateLimitError.
C26_BlockingAcquireReturns ==
    /\ \A t \in Threads :
          (tpc[t] # "idle" /\ blocking[t])
              ~> (tpc[t] = "idle" /\ outcome[t] = "admitted")
    /\ [][\A t \in Threads :
            (blocking[t] /\ tpc[t] # "idle" /\ tpc'[t] = "idle")
                => /\ outcome'[t] = "admitted"
                   /\ events' # <<>>
                   /\ events'[Len(events')] = now[t]]_vars
    /\ [](\A t \in Threads :
            (blocking[t] /\ tpc[t] = "idle") => outcome[t] # "RateLimitError")

\* a blocking call has returned admitted at the current clock value although
\* max_calls calls had been admitted before it, while the other thread's
\* blocking call is still asleep
C26_Witness ==
    \E t, u \in Threads :
        /\ t # u
        /\ blocking[t] /\ tpc[t] = "idle" /\ outcome[t] = "admitted"
        /\ events # <<>> /\ events[Len(events)] = clock
        /\ TotalAdmitted > max_calls
        /\ blocking[u] /\ tpc[u] = "sleeping"

\* the step on which thread t starts a suspension, and the one on which it ends
SleepStep(t) == tpc[t] = "denied" /\ tpc'[t] = "sleeping"
WakeStep(t) == tpc[t] = "sleeping" /\ tpc'[t] # "sleeping"

C31_WindowBoundedAndOrdered ==
    /\ Len(events) <= max_calls
    /\ \A i, j \in 1..Len(events) : i < j => events[i] <= events[j]
    /\ \A i \in 1..Len(events) : events[i] <= clock

\* the deque is full with two different timestamps after an older one was pruned
C31_Witness ==
    /\ max_calls = 2
    /\ Len(events) = max_calls
    /\ events[1] < events[2]
    /\ TotalAdmitted > Len(events)

\* the step is a constructor call (with other arguments than the last one)
ConstructStep == lock = NoLimiter /\ ctor' # ctor

\* C24: the constructor called with max_calls <= 0 or per_seconds <= 0 raises
\* ValueError and leaves the caller without a limiter; called with both
\* positive it yields a limiter with these settings and no recorded
\* timestamp; so every limiter that exists has positive settings.
C24_ConstructorValidates ==
    [][/\ ConstructStep =>
             IF ctor'[1] <= 0 \/ ctor'[2] <= 0
               THEN /\ lock' = NoLimiter
                    /\ \E t \in Threads : outcome'[t] = "ValueError"
                    /\ UNCHANGED <<max_calls, per_seconds, events>>
               ELSE /\ lock' = NoThread
                    /\ max_calls' = ctor'[1] /\ per_seconds' = ctor'[2]
                    /\ events' = <<>>
       /\ lock' # NoLimiter => max_calls' > 0 /\ per_seconds' > 0]_vars

\* after a constructor call that raised, a limiter was constructed and has
\* admitted its first call
C24_Witness ==
    /\ \E t \in Threads : outcome[t] = "ValueError"
    /\ lock # NoLimiter
    /\ Len(events) = 1

\* ----------------------------------------------------- the store: claims

\* the object under the state key, <<>> when there is none
StateObject(objs) == IF StateKey \in DOMAIN objs THEN <<objs[StateKey]>> ELSE <<>>

\* the State a read of the bucket would decode
Stored ==
    IF StateKey \in DOMAIN s3
      THEN _load_state_json(decrypt(FernetKey, s3[StateKey].Body).plain)
      ELSE EmptyState

StageStep(p) == spc[p] = "stage" /\ spc'[p] # "stage"
CopyStep(p) == spc[p] = "copy" /\ spc'[p] = "cleanup"
CleanupStep(p) == spc[p] = "cleanup" /\ spc'[p] = "idle"

\* the step in which p, whose last call was a write, calls read
ReadAfterWrite(p) == spc[p] = "idle" /\ res[p].op = "write" /\ res'[p].op = "read"

\* the state key holds the version the running write of p expects
Matches(p) == StateKey \in DOMAIN s3 /\ s3[StateKey].ETag = res[p].if_match

\* C2: a conditional write changes the state object only in its copy step and
\* only when the object's ETag equals if_match at that step, and then to the
\* ciphertext of the call; when the ETag differs the object stays as it is and,
\* the backend having answered, the call raises OptimisticLockError.
C2_ConditionalCommit ==
    /\ [][\A p \in Procs : CopyStep(p) =>
            /\ (StateObject(s3') # StateObject(s3) =>
                    /\ Matches(p)
                    /\ s3'[StateKey].Body = w_cipher[p]
                    /\ w_pending'[p][1] = "ok")
            /\ (~Matches(p) => StateObject(s3') = StateObject(s3))
            /\ (~Matches(p) /\ w_pending'[p][3] # "ServiceUnavailable"
                    => w_pending'[p][1] = "OptimisticLockError")]_vars
    /\ [][\A p \in Procs : (StageStep(p) \/ CleanupStep(p)) =>
            StateObject(s3') = StateObject(s3)]_vars
    /\ [][\A p \in Procs : CleanupStep(p) => res'[p].kind = w_pending[p][1]]_vars

\* one conditional write has committed and another has been refused
C2_Witness ==
    \E p, q \in Procs :
        /\ spc[p] = "idle" /\ res[p].op = "write" /\ res[p].kind = "OptimisticLockError"
        /\ spc[q] = "idle" /\ res[q].op = "write" /\ res[q].kind = "ok"
        /\ res[q].if_match # NoneVal
        /\ Stored = res[q].state

\* a conditional write that has returned or raised OptimisticLockError
CondWriteDone(p) ==
    /\ spc[p] = "idle"
    /\ res[p].op = "write"
    /\ res[p].if_match # NoneVal
    /\ res[p].kind \in {"ok", "OptimisticLockError"}

\* p and q raced from the version both had read: each passed it as if_match
\* and it was the current version when each call began
Raced(p, q) ==
    /\ p # q
    /\ CondWriteDone(p) /\ CondWriteDone(q)
    /\ res[p].if_match = res[q].if_match
    /\ res[p].base = res[p].if_match
    /\ res[q].base = res[q].if_match

C6_RoundTrip ==
    [][\A p \in Procs :
        ( /\ ReadAfterWrite(p)
          /\ res[p].kind = "ok"
          /\ lastWriter = p
          /\ res'[p].code # "ServiceUnavailable" )
        => ( /\ res'[p].kind = "ok"
             /\ res'[p].state = res[p].state
             /\ res'[p].etag = res[p].etag )]_vars

\* a client has read back a state with a cursor, markers and held tickers
C6_Witness ==
    \E p \in Procs :
        /\ spc[p] = "idle" /\ res[p].op = "read" /\ res[p].kind = "ok"
        /\ lastWriter = p
        /\ res[p].etag = CurrentETag(s3)
        /\ res[p].state.last_update_id # NoneVal
        /\ res[p].state.held # <<>>

\* C7: a read answered by the backend while the state key does not exist
\* returns State.empty() and no ETag, and raises nothing.
C7_MissingReadsEmpty ==
    [][\A p \in Procs :
        ( /\ spc[p] = "idle"
          /\ res'[p].op = "read"
          /\ res'[p] # res[p]
          /\ StateKey \notin DOMAIN s3
          /\ res'[p].code # "ServiceUnavailable" )
        => ( /\ res'[p].kind = "ok"
             /\ res'[p].state = EmptyState
             /\ res'[p].etag = NoneVal )]_vars

\* a client has read the empty bucket
C7_Witness ==
    \E p \in Procs :
        /\ res[p].op = "read" /\ res[p].kind = "ok"
        /\ res[p].etag = NoneVal
        /\ StateKey \notin DOMAIN s3

PutStep(p) == spc[p] = "put" /\ spc'[p] = "idle"

\* C11: a write without if_match that the backend answers returns, whatever
\* version the state object has at that moment (none, the one the caller read,
\* or one another writer has put there since); the object then decodes to
\* exactly the written state and its ETag is the token the call returns.
C11_UnconditionalWrite ==
    [][\A p \in Procs :
        (PutStep(p) /\ res'[p].code # "ServiceUnavailable") =>
            /\ res'[p].kind = "ok"
            /\ s3'[StateKey].Body = w_cipher[p]
            /\ _load_state_json(decrypt(FernetKey, s3'[StateKey].Body).plain)
                   = res[p].state
            /\ res'[p].etag = s3'[StateKey].ETag
            /\ res'[p].etag # CurrentETag(s3)]_vars

\* an unconditional write has replaced the different state another writer had
\* committed before the call began
C11_Witness ==
    \E p, q \in Procs :
        /\ p # q
        /\ spc[p] = "idle" /\ res[p].op = "write" /\ res[p].kind = "ok"
        /\ res[p].if_match = NoneVal
        /\ res[q].op = "write" /\ res[q].kind = "ok"
        /\ res[p].base = res[q].etag
        /\ res[q].state # res[p].state
        /\ lastWriter = p
        /\ Stored = res[p].state
        /\ CurrentETag(s3) = res[p].etag

\* the running call of p is a conditional write
CondWriteRunning(p) == res[p].op = "write" /\ res[p].kind = "running" /\ res[p].if_match # NoneVal

\* C13: a conditional write first stages its ciphertext under a temporary key,
\* which is not the state key; only then is the conditional copy attempted;
\* whatever the copy gave (committed, conflict, transport failure) the next
\* request of the call is the delete of the temporary key, and only after it
\* does the call return or raise. Only a failed staging ends the call earlier.
C13_StageCommitCleanup ==
    /\ [][\A p \in Procs : StageStep(p) =>
            /\ CondWriteRunning(p)
            /\ w_temp[p] # StateKey
            /\ StateObject(s3') = StateObject(s3)
            /\ \/ /\ spc'[p] = "copy"
                  /\ w_temp[p] \in DOMAIN s3'
                  /\ s3'[w_temp[p]].Body = w_cipher[p]
                  /\ CondWriteRunning(p)'
               \/ /\ spc'[p] = "idle"
                  /\ s3' = s3
                  /\ res'[p].kind = "ClientError"]_vars
    /\ [][\A p \in Procs : (spc[p] = "copy" /\ spc'[p] # "copy") =>
            /\ w_temp[p] \in DOMAIN s3
            /\ s3[w_temp[p]].Body = w_cipher[p]
            /\ spc'[p] = "cleanup"
            /\ w_pending'[p][1] \in {"ok", "OptimisticLockError", "ClientError"}
            /\ w_temp[p] \in DOMAIN s3'
            /\ CondWriteRunning(p)']_vars
    /\ [][\A p \in Procs : CleanupStep(p) =>
            /\ s3' \in {s3, delete_object(s3, w_temp[p])}
            /\ res'[p].kind = w_pending[p][1]]_vars
    /\ [][\A p \in Procs : (CondWriteRunning(p) /\ ~CondWriteRunning(p)') =>
            \/ CleanupStep(p)
            \/ StageStep(p) /\ res'[p].code = "ServiceUnavailable"]_vars

\* one conditional write has committed and another has been refused, both
\* have returned, and no temporary object is left in the bucket
C13_Witness ==
    \E p, q \in Procs :
        /\ spc[p] = "idle" /\ res[p].op = "write" /\ res[p].kind = "OptimisticLockError"
        /\ spc[q] = "idle" /\ res[q].op = "write" /\ res[q].kind = "ok"
        /\ res[q].if_match # NoneVal
        /\ DOMAIN s3 = {StateKey}
        /\ nextId > MaxWrites

\* the step in which p calls read
ReadStep(p) == spc[p] = "idle" /\ res'[p] # res[p] /\ res'[p].op = "read"

\* the state object is there and does not decrypt under the store's key
Undecryptable == StateKey \in DOMAIN s3 /\ ~decrypt(FernetKey, s3[StateKey].Body).ok

\* C14: a read whose request does not reach the backend raises the backend's
\* ClientError as it is (with its code); a read of an object that does not
\* decrypt under the store's key raises ValueError; the two are different
\* kinds of exception.
C14_TransportVsDecryption ==
    [][\A p \in Procs : ReadStep(p) =>
        /\ (res'[p].kind = "ClientError" <=> res'[p].code = "ServiceUnavailable")
        /\ (Undecryptable /\ res'[p].code # "ServiceUnavailable"
               => res'[p].kind = "ValueError" /\ res'[p].code = DecryptMessage)
        /\ (res'[p].kind = "ValueError" /\ res'[p].code = DecryptMessage
               => Undecryptable)]_vars

\* one client's read has failed in transport and the other's on an object
\* written under another key
C14_Witness ==
    \E p, q \in Procs :
        /\ res[p].op = "read" /\ res[p].kind = "ClientError"
        /\ res[q].op = "read" /\ res[q].kind = "ValueError"
        /\ res[q].code = DecryptMessage
        /\ StateKey \in DOMAIN s3
        /\ \E pt \in ForeignPlaintexts :
              s3[StateKey].Body = encrypt(OtherKey, 100, pt)

\* C15: the error read raises for a plaintext that decrypts but is not a valid
\* State is of another kind than the error it raises when decryption fails.
C15_ParseVsDecryptionKind ==
    \A p, q \in Procs :
        ( /\ res[p].op = "read" /\ res[p].code = ParseMessage
          /\ res[q].op = "read" /\ res[q].code = DecryptMessage )
        => res[p].kind # res[q].kind

\* the bytes are a token Fernet.encrypt makes under the store's key
MadeUnderStoreKey(body) == body = encrypt(FernetKey, body.iv, body.ct[4])

\* C16: when the bytes under the state key differ from every ciphertext made
\* under the store's key (bytes of a written ciphertext altered, appended or
\* cut off, or a ciphertext made under another key), a read that the backend
\* answers raises the decryption error and returns no State.
C16_AlteredNeverReads ==
    [][\A p \in Procs :
        ( /\ ReadStep(p)
          /\ StateKey \in DOMAIN s3
          /\ ~MadeUnderStoreKey(s3[StateKey].Body)
          /\ res'[p].code # "ServiceUnavailable" )
        => ( /\ res'[p].kind = "ValueError"
             /\ res'[p].code = DecryptMessage )]_vars

\* the loop has ended: its write returned, or a request of its read or write
\* did not reach the backend
RetryCommitted ==
    /\ hpc[Writer] \in {"tried", "retried"}
    /\ spc[Writer] = "idle"
    /\ res[Writer].kind = "ok"

RetryTransportError ==
    \/ hpc[Writer] = "failed"
    \/ /\ hpc[Writer] \in {"tried", "retried"}
       /\ spc[Writer] = "idle"
       /\ res[Writer].kind = "ClientError"

\* C12: when the loop has re-read after an OptimisticLockError and writes with
\* the token of that read, and the object still has that token when the copy
\* request is applied (no other write in between), the write commits the
\* loop's state and returns; and with a bounded number of competing writes the
\* loop always ends, in a commit unless a request failed in transport.
C12_RetryCommits ==
    /\ [][( /\ hpc[Writer] = "retried"
            /\ CopyStep(Writer)
            /\ CurrentETag(s3) = hetag[Writer]
            /\ w_pending'[Writer][3] # "ServiceUnavailable" )
          => ( /\ w_pending'[Writer][1] = "ok"
               /\ s3'[StateKey].Body = w_cipher[Writer]
               /\ w_pending'[Writer][2] = s3'[StateKey].ETag )]_vars
    /\ [][( /\ hpc[Writer] = "retried"
            /\ CleanupStep(Writer)
            /\ w_pending[Writer][1] = "ok" )
          => res'[Writer].kind = "ok"]_vars
    /\ <>(RetryCommitted \/ RetryTransportError)

\* the loop's first write was refused because the competitor had committed
\* another state; the loop re-read that commit and its second write, made
\* with the token of the re-read, has replaced it
C12_Witness ==
    /\ hpc[Writer] = "retried"
    /\ spc[Writer] = "idle"
    /\ res[Writer].kind = "ok"
    /\ res[Writer].if_match = hetag[Writer]
    /\ res[Writer].base = hetag[Writer]
    /\ res[Competitor].op = "write" /\ res[Competitor].kind = "ok"
    /\ res[Competitor].etag = hetag[Writer]
    /\ lastWriter = Writer
    /\ Stored = hstate[Writer]
    /\ hstate[Writer] # res[Competitor].state

\* the temporary object of p's write is still in the bucket
TempLeft(p) == w_temp[p] # <<>> /\ w_temp[p] \in DOMAIN s3'

\* C28: the cleanup step leaves the state object alone, and the conditional
\* write ends with the outcome its commit attempt had, whether the temporary
\* object was deleted or is still there: the token of the committed blob
\* after a commit, OptimisticLockError after a rejected precondition, the
\* transport error of the copy otherwise.
C28_CleanupNeverChangesResult ==
    [][\A p \in Procs :
         /\ CopyStep(p) =>
               w_pending'[p][1] =
                   IF StateObject(s3') = <<[Body |-> w_cipher[p], ETag |-> ETagOf(w_cipher[p])]>>
                        /\ lastWriter' = p /\ Matches(p)
                     THEN "ok"
                     ELSE IF StateKey \in DOMAIN s3 /\ ~Matches(p) /\ s3' = s3
                                /\ w_pending'[p][3] \in {"PreconditionFailed", "412"}
                            THEN "OptimisticLockError"
                            ELSE "ClientError"
         /\ CleanupStep(p) =>
               /\ StateObject(s3') = StateObject(s3)
               /\ res'[p].kind = w_pending[p][1]
               /\ res'[p].kind = "ok" => res'[p].etag = ETagOf(w_cipher[p])
               /\ res'[p].kind = "OptimisticLockError"
                     => res'[p].code \in {"PreconditionFailed", "412"}
               /\ res'[p].kind = "ClientError" => res'[p].code = w_pending[p][3]
               /\ res'[p].kind \in {"ok", "OptimisticLockError", "ClientError"}]_vars

\* a conditional write has returned the new token, another has raised
\* OptimisticLockError, and the temporary objects of both are still in the
\* bucket because their deletes failed
C28_Witness ==
    \E p, q \in Procs :
        /\ spc[p] = "idle" /\ res[p].op = "write" /\ res[p].if_match # NoneVal
        /\ res[p].kind = "ok" /\ res[p].etag = CurrentETag(s3)
        /\ spc[q] = "idle" /\ res[q].op = "write"
        /\ res[q].kind = "OptimisticLockError"
        /\ Cardinality(DOMAIN s3 \ {StateKey}) = 2

\* the requests named op that the running or last call of p has issued on key
Issued(p, op, key) ==
    Cardinality({i \in 1..Len(reqs[p]) : reqs[p][i] = <<op, key>>})

\* the requests of p's call that write the state key
CommitAttempts(p) == Issued(p, "put_object", StateKey) + Issued(p, "copy_object", StateKey)

\* the requests of p's call on keys other than the state key, deletes aside
Stagings(p) ==
    Cardinality({i \in 1..Len(reqs[p]) :
                   reqs[p][i][1] = "put_object" /\ reqs[p][i][2] # StateKey})

\* C29: a read call is one get_object on the state key and nothing else; a
\* write call issues no get_object, at most one staging put and at most one
\* request that writes the state key; a write that raised a conflict issued
\* exactly the staging put, the one copy and the delete, and a write that
\* raised a transport error issued no request after the one that failed
\* except the delete that follows a failed copy.
C29_NoInternalRetry ==
    \A p \in Procs :
        /\ res[p].op = "read" => reqs[p] = << <<"get_object", StateKey>> >>
        /\ res[p].op = "write" =>
              /\ Issued(p, "get_object", StateKey) = 0
              /\ Stagings(p) <= 1
              /\ CommitAttempts(p) <= 1
              /\ Len(reqs[p]) <= 3
        /\ (res[p].op = "write" /\ spc[p] = "idle") =>
              /\ res[p].kind = "OptimisticLockError" =>
                    (Len(reqs[p]) = 3 /\ Stagings(p) = 1
                       /\ reqs[p][2] = <<"copy_object", StateKey>>
                       /\ reqs[p][3][1] = "delete_object")
              /\ (res[p].kind = "ClientError" /\ res[p].if_match = NoneVal) =>
                    reqs[p] = << <<"put_object", StateKey>> >>
              /\ (res[p].kind = "ClientError" /\ res[p].if_match # NoneVal) =>
                    \/ (Len(reqs[p]) = 1 /\ Stagings(p) = 1)
                    \/ (Len(reqs[p]) = 3 /\ Stagings(p) = 1 /\ CommitAttempts(p) = 1
                           /\ reqs[p][3][1] = "delete_object")
              /\ res[p].kind = "ok" => CommitAttempts(p) = 1

\* a conditional write has raised a conflict or a transport error after its
\* single copy request, and a read has raised a transport error after its
\* single fetch
C29_Witness ==
    \E p, q \in Procs :
        /\ spc[p] = "idle" /\ res[p].op = "write"
        /\ res[p].kind \in {"OptimisticLockError", "ClientError"}
        /\ Issued(p, "copy_object", StateKey) = 1
        /\ spc[q] = "idle" /\ res[q].op = "read" /\ res[q].kind = "ClientError"
        /\ Len(reqs[q]) = 1

\* q is inside a write: between its first request and its return
Writing(q) == spc[q] \in {"put", "stage", "copy", "cleanup"}

\* the copy of q's running write has gone through and nothing has replaced it
Committed(q) ==
    /\ spc[q] = "cleanup" /\ w_pending[q][1] = "ok"
    /\ StateKey \in DOMAIN s3 /\ s3[StateKey].Body = w_cipher[q]

\* C30: a read that succeeds while another process is inside a write returns
\* a State together with the token of the very object that decodes to it:
\* the object of the running write, whole, once its commit has gone through,
\* and until then the object that is under the state key (the one the write
\* started from, if no third write came in between), never the blob the
\* write has prepared or staged.
C30_ReadSeesOldOrNew ==
    [][\A p, q \in Procs :
         (p # q /\ ReadStep(p) /\ Writing(q) /\ res'[p].kind = "ok") =>
            /\ res'[p].state = Stored
            /\ res'[p].etag = CurrentETag(s3)
            /\ IF Committed(q)
                 THEN /\ res'[p].state = res[q].state
                      /\ res'[p].etag = ETagOf(w_cipher[q])
                 ELSE /\ res'[p].etag # ETagOf(w_cipher[q])
                      /\ CurrentETag(s3) = res[q].base
                            => res'[p].etag = res[q].base]_vars

\* a read has returned the blob and the token of a conditional write that is
\* still in its cleanup, and the blob differs from the one the write started from
C30_Witness ==
    \E p, q \in Procs :
        /\ p # q
        /\ spc[p] = "idle" /\ res[p].op = "read" /\ res[p].kind = "ok"
        /\ Committed(q)
        /\ res[p].etag = ETagOf(w_cipher[q])
        /\ res[p].state = res[q].state
        /\ res[p].etag # res[q].base
        /\ w_temp[q] \in DOMAIN s3

TempObjects == DOMAIN s3 \ {StateKey}

\* the writes that have staged and not yet cleaned up
Staged == {p \in Procs : spc[p] \in {"copy", "cleanup"}}

\* C37: two conditional writes in flight never have the same temporary key;
\* the copy of a conditional write that commits puts under the state key the
\* ciphertext of that call, which decrypts to the state passed to it, however
\* the requests of other writes are interleaved; and as long as every
\* delete_object succeeds the temporary objects in the bucket are exactly those
\* of the writes between their staging and their cleanup, so that none is
\* left once every write has finished.
C37_OwnBlobCommittedNoTempLeft ==
    /\ [](\A p, q \in Procs :
            (p # q /\ w_temp[p] # <<>> /\ w_temp[q] # <<>>) => w_temp[p] # w_temp[q])
    /\ [][\A p \in Procs : (CopyStep(p) /\ w_pending'[p][1] = "ok") =>
            /\ s3[w_temp[p]].Body = w_cipher[p]
            /\ s3'[StateKey].Body = w_cipher[p]
            /\ Stored' = res[p].state]_vars
    /\ [](TempObjects = {w_temp[p] : p \in Staged})
    /\ []((\A p \in Procs : spc[p] = "idle") => TempObjects = {})

\* two conditional writes of different states have both staged; one has
\* committed its own state and the other's ciphertext is still staged
C37_Witness ==
    \E p, q \in Procs :
        /\ spc[p] = "cleanup" /\ w_pending[p][1] = "ok"
        /\ spc[q] = "copy"
        /\ res[p].state # res[q].state
        /\ Stored = res[p].state
        /\ TempObjects = {w_temp[p], w_temp[q]}

\* a step of the conditional write of p
CondWriteStep(p) ==
    /\ res[p].op = "write" /\ res[p].if_match # NoneVal
    /\ spc[p] \in {"stage", "copy", "cleanup"} /\ spc'[p] # spc[p]

\* C38: while the state object does not exist, no step of a conditional
\* write creates it; the copy of such a write, when the backend answers it, is
\* refused, and the write then raises OptimisticLockError after a cleanup that
\* removes its temporary object.
C38_MissingObjectConflicts ==
    /\ [][\A p \in Procs : (CondWriteStep(p) /\ StateKey \notin DOMAIN s3) =>
            StateKey \notin DOMAIN s3']_vars
    /\ [][\A p \in Procs : (CopyStep(p) /\ StateKey \notin DOMAIN s3) =>
            \/ /\ w_pending'[p][1] = "OptimisticLockError"
               /\ w_pending'[p][3] \in {"PreconditionFailed", "412"}
            \/ /\ w_pending'[p][1] = "ClientError"
               /\ w_pending'[p][3] = "ServiceUnavailable"]_vars
    /\ [][\A p \in Procs : (CleanupStep(p) /\ w_pending[p][1] = "OptimisticLockError") =>
            /\ res'[p].kind = "OptimisticLockError"
            /\ w_temp[p] \in DOMAIN s3
            /\ w_temp[p] \notin DOMAIN s3']_vars

\* a conditional write issued on a bucket without state object has raised
\* OptimisticLockError, and the bucket is still empty
C38_Witness ==
    \E p \in Procs :
        /\ spc[p] = "idle" /\ res[p].op = "write"
        /\ res[p].if_match # NoneVal /\ res[p].base = NoneVal
        /\ res[p].kind = "OptimisticLockError"
        /\ DOMAIN s3 = {}

\* C39: a staging put that stores nothing ends the conditional write at once
\* with the error of the put: the state object and the rest of the bucket are
\* as before and the put is the only request the call has sent; and whatever
\* step of a conditional write changes the state object is a copy that
\* committed, whose call then returns the new token.
C39_StagingFailureChangesNothing ==
    /\ [][\A p \in Procs : (StageStep(p) /\ w_temp[p] \notin DOMAIN s3') =>
            /\ spc'[p] = "idle"
            /\ res'[p].kind = "ClientError"
            /\ res'[p].code = "ServiceUnavailable"
            /\ s3' = s3
            /\ reqs'[p] = <<<<"put_object", w_temp[p]>>>>]_vars
    /\ [][\A p \in Procs :
            (CondWriteStep(p) /\ StateObject(s3') # StateObject(s3)) =>
                /\ CopyStep(p)
                /\ w_pending'[p][1] = "ok"
                /\ w_pending'[p][2] = CurrentETag(s3')]_vars
    /\ [](\A p \in Procs :
            (spc[p] = "idle" /\ res[p].op = "write" /\ res[p].if_match # NoneVal
               /\ Issued(p, "copy_object", StateKey) = 0)
              => res[p].kind = "ClientError" /\ Len(reqs[p]) = 1)

\* a conditional write whose token was the current one has raised the error
\* of its staging put; the state object still has that token and another state
C39_Witness ==
    \E p \in Procs :
        /\ spc[p] = "idle" /\ res[p].op = "write" /\ res[p].kind = "ClientError"
        /\ res[p].if_match # NoneVal
        /\ Len(reqs[p]) = 1
        /\ CurrentETag(s3) = res[p].if_match
        /\ Stored # res[p].state

\* p has finished a write to which it passed the token of its read of the
\* missing state object (in SpecReadWrite every write passes the token of the
\* caller's own read)
WroteFirst(p) ==
    /\ spc[p] = "idle" /\ res[p].op = "write"
    /\ res[p].if_match = NoneVal /\ res[p].base = NoneVal

\* C36 as stated: of two writers that both read the missing state object and
\* wrote with the token read, at most one commits without the other being
\* told of a conflict.
C36_FirstWriteConflict ==
    \A p, q \in Procs :
        (p # q /\ WroteFirst(p) /\ WroteFirst(q)
             /\ res[p].kind = "ok" /\ res[q].kind = "ok")
          => FALSE

\* C36 (amended): a write that passes the token a read of the missing state
\* object returned (no token) is an unconditional put: it is never told of a
\* conflict, it sends one put_object on the state key, and when that request
\* reaches the backend the state passed is committed whatever the object is
\* by then, another first writer's state included.
C36_FirstWriteUnconditional ==
    [][\A p \in Procs :
          /\ (spc[p] = "idle" /\ spc'[p] # "idle" /\ res[p].etag = NoneVal)
                => spc'[p] = "put" /\ res'[p].if_match = NoneVal
          /\ PutStep(p) =>
                /\ res[p].if_match = NoneVal
                /\ reqs'[p] = <<<<"put_object", StateKey>>>>
                /\ \/ /\ res'[p].kind = "ok"
                      /\ Stored' = res[p].state
                      /\ res'[p].etag = CurrentETag(s3')
                   \/ /\ res'[p].kind = "ClientError"
                      /\ res'[p].code = "ServiceUnavailable"
                      /\ s3' = s3]_vars

\* two writers read the missing state object, both wrote with the token
\* read, both writes returned, and the state of one of them is gone
C36_Witness ==
    \E p, q \in Procs :
        /\ p # q /\ WroteFirst(p) /\ WroteFirst(q)
        /\ res[p].kind = "ok" /\ res[q].kind = "ok"
        /\ res[p].state # res[q].state
        /\ Stored = res[q].state

\* --------------------------------------------------- the handlers: claims

\* the step of p changes the object under the state key
Commits(p) ==
    /\ hpc[p] \in {"tried", "fallback"}
    /\ spc'[p] # spc[p]
    /\ StateObject(s3') # StateObject(s3)

\* C5: a handler run (poller, eod or open) that read the state object at some
\* version changes the object only while it still has that version, so that a
\* state another run committed between this run's read and this run's write
\* is never overwritten.
C5_NoLostUpdate ==
    [][\A p \in Procs :
          Commits(p) /\ hetag[p] # NoneVal => CurrentETag(s3) = hetag[p]]_vars

\* the cursor c1 is not behind the cursor c0 (None is behind every number)
NotBehind(c1, c0) == c0 = NoneVal \/ (c1 # NoneVal /\ c1[1] >= c0[1])

\* C17: no write a poller run commits replaces the stored cursor by a smaller
\* one (or by none), however poller runs follow or overlap one another.
C17_CursorNeverDecreases ==
    [][\A p \in Procs :
          (Commits(p) /\ hkind[p] = "poller")
              => NotBehind(Stored'.last_update_id, Stored.last_update_id)]_vars

\* the step in which poller run p goes through its command loop
PollerStep(p) == hpc[p] = "loaded" /\ hkind[p] = "poller" /\ hpc'[p] = "write"

\* the update comes from a chat that is not in the whitelist
Blocked(u) == u.chat_id \notin AllowedChatIds

\* C19: in a poller run with a non-empty whitelist, commands of chats that
\* are not whitelisted change nothing in held and are not acknowledged, and
\* the cursor still advances to the largest update_id received, blocked
\* updates included.
C19_WhitelistBlocks ==
    [][\A p \in Procs :
          PollerStep(p) =>
              LET updates == hupdates'[p] IN
                /\ (\A i \in 1..Len(updates) : Blocked(updates[i]))
                       => hstate'[p].held = hstate[p].held
                /\ \A i \in 1..Len(Acks(updates)) :
                       Acks(updates)[i] \in AllowedChatIds
                /\ hstate'[p].last_update_id = _max_update_id(updates)]_vars

\* the step in which an eod or open run p goes through its symbols
AlertStep(p) == hpc[p] = "loaded" /\ hkind[p] \in {"eod", "open"} /\ hpc'[p] # "loaded"

\* the dedup key k is true in the state that run p read
ReadAsSent(p, k) ==
    /\ res[p].op = "read"
    /\ k \in DOMAIN res[p].state.alerts_sent
    /\ res[p].state.alerts_sent[k]

\* C20: an eod or open run sends no alert whose dedup key is true in the
\* state it read, and as long as runs do not overlap and no run has lost its
\* write, every dedup key has been alerted at most once.
C20_AtMostOneAlertPerKey ==
    [][/\ \A p \in Procs, k \in DedupKeys :
             AlertStep(p) /\ alerts'[k] > alerts[k] => ~ReadAsSent(p, k)
       /\ ~lostWrite' => \A k \in DedupKeys : alerts'[k] <= 1]_vars

\* a later eod run has read the marker of the alert an earlier run sent, has
\* gone through a universe with the candidate in it and has sent nothing
C20_Witness ==
    \E p \in Procs :
        /\ hkind[p] = "eod" /\ hpc[p] = "write"
        /\ hstate[p].held = <<>>
        /\ ReadAsSent(p, BuyKey("AAPL"))
        /\ AlertSent(hstate[p], BuyKey("AAPL"))
        /\ alerts[BuyKey("AAPL")] = 1
        /\ ~lostWrite

\* the step in which an eod or open run p calls store.write
AlertRunWrites(p) ==
    /\ hkind[p] \in {"eod", "open"}
    /\ spc[p] = "idle" /\ spc'[p] # "idle"

\* C21: an eod or open run sets a dedup key in its state only when the send
\* for that key returned in that run, and no state such a run writes has a key
\* set for which no send has ever returned: after a failed send the key stays
\* unset and a later run can send the alert.
C21_MarkedOnlyAfterSend ==
    [][\A p \in Procs, k \in DedupKeys :
          /\ (AlertStep(p) /\ AlertSent(hstate'[p], k) /\ ~AlertSent(hstate[p], k))
                 => alerts'[k] = alerts[k] + 1
          /\ (AlertRunWrites(p) /\ AlertSent(res'[p].state, k))
                 => alerts[k] >= 1]_vars

\* an eod run whose send for the candidate failed has written its state,
\* with the candidate's key unset
C21_Witness ==
    \E p \in Procs :
        /\ hkind[p] = "eod" /\ hpc[p] = "tried" /\ spc[p] = "idle"
        /\ res[p].kind = "ok"
        /\ hstate[p].held = <<>>
        /\ ~AlertSent(Stored, BuyKey("AAPL"))
        /\ alerts[BuyKey("AAPL")] = 0

\* the members of a list, as a set
Elements(seq) == {seq[i] : i \in 1..Len(seq)}

\* the two State values are the same blob: same set of held identifiers,
\* same dedup markers, same cursor
LogicallySame(a, b) ==
    /\ Elements(a.held) = Elements(b.held)
    /\ a.alerts_sent = b.alerts_sent
    /\ a.last_update_id = b.last_update_id

\* the plaintext the running write of p encrypted
Plaintext(p) == w_cipher[p].ct[4]

\* C22: two independent encode calls on logically identical State values
\* produce the same plaintext bytes.
C22_CanonicalEncoding ==
    \A p, q \in Procs :
        (w_cipher[p] # <<>> /\ w_cipher[q] # <<>> /\ LogicallySame(hstate[p], hstate[q]))
            => Plaintext(p) = Plaintext(q)

\* the step in which a run p reads the state
LoadStep(p) == hpc[p] = "idle" /\ hpc'[p] = "loaded"

\* the bucket, the calls on the store and the alerts sent are as before the step
NothingWrittenOrSent ==
    /\ s3' = s3 /\ nextId' = nextId /\ spc' = spc /\ lastWriter' = lastWriter
    /\ alerts' = alerts

PollerComputeStep(p) == hpc[p] = "loaded" /\ hkind[p] = "poller" /\ hpc'[p] # "loaded"

\* the step in which a poller run p calls store.write
PollerWrites(p) == hkind[p] = "poller" /\ spc[p] = "idle" /\ spc'[p] # "idle"

\* C32: a poller run whose acknowledgement could not be sent goes on to the
\* write all the same, with the held list its commands produced and the
\* cursor at the largest update_id received; every write the run then calls
\* is a write of that state, and when a write of the run returns, the stored
\* object is that state.
C32_AckFailureKeepsCommand ==
    [][\A p \in Procs :
         /\ (PollerComputeStep(p) /\ ackFailed'[p])
                => /\ hpc'[p] = "write"
                   /\ hupdates'[p] # <<>>
                   /\ hstate'[p].held = ApplyUpdates(hstate[p], hupdates'[p]).held
                   /\ hstate'[p].last_update_id = _max_update_id(hupdates'[p])
         /\ (PollerWrites(p) /\ ackFailed[p]) => res'[p].state = hstate[p]
         /\ (ackFailed[p] /\ hkind[p] = "poller" /\ (PutStep(p) \/ CleanupStep(p))
                /\ res'[p].kind = "ok")
                => Stored' = hstate[p]]_vars

\* the acknowledgement of a /buy could not be sent; the run's write has
\* returned and the stored state holds the ticker and the new cursor
C32_Witness ==
    \E p \in Procs :
        /\ ackFailed[p] /\ hkind[p] = "poller"
        /\ hpc[p] = "tried" /\ spc[p] = "idle" /\ res[p].kind = "ok"
        /\ hupdates[p] # <<>> /\ hupdates[p][1].cmd = "buy"
        /\ InSeq(hupdates[p][1].ticker, Stored.held)
        /\ Stored.last_update_id = <<hupdates[p][1].update_id>>
        /\ Stored = hstate[p]

\* the held list of the running poller run, and the one it read
Held == hstate[Runner].held
HeldAtRead == res[Runner].state.held

\* the command of the last update about ticker t among the updates gone
\* through, "none" when there is none
LastCommand(t) ==
    LET about == {i \in 1..Len(hupdates[Runner]) : hupdates[Runner][i].ticker = t}
    IN IF about = {} THEN "none"
       ELSE hupdates[Runner][CHOOSE i \in about : \A j \in about : j <= i].cmd

\* the step is one pass of the command loop
CommandStep == Len(hupdates'[Runner]) = Len(hupdates[Runner]) + 1

\* C40: whatever /buy and /sell commands a poller run has gone through from
\* a held list without repeats, the held list has no repeats and holds a
\* ticker exactly when the last command about it was a /buy, or no command
\* was about it and the list read held it; and a /buy of a held ticker or a
\* /sell of a ticker not held leaves the list as it is.
C40_HeldFollowsLastCommand ==
    /\ [](\A i, j \in 1..Len(Held) : Held[i] = Held[j] => i = j)
    /\ [](\A t \in Tickers :
            InSeq(t, Held) <=> \/ LastCommand(t) = "buy"
                               \/ LastCommand(t) = "none" /\ InSeq(t, HeldAtRead))
    /\ [][CommandStep =>
            LET u == hupdates'[Runner][Len(hupdates'[Runner])] IN
              (InSeq(u.ticker, Held) <=> u.cmd = "buy") => Held' = Held]_vars

\* a run that read AAPL as held has gone through a /buy AAPL, which changed
\* nothing, then a /sell AAPL, and a /buy MSFT: only MSFT is held
C40_Witness ==
    /\ InSeq("AAPL", HeldAtRead) /\ ~InSeq("MSFT", HeldAtRead)
    /\ Len(hupdates[Runner]) = 3
    /\ hupdates[Runner][1].cmd = "buy" /\ hupdates[Runner][1].ticker = "AAPL"
    /\ hupdates[Runner][2].cmd = "sell" /\ hupdates[Runner][2].ticker = "AAPL"
    /\ hupdates[Runner][3].cmd = "buy" /\ hupdates[Runner][3].ticker = "MSFT"
    /\ Held = <<"MSFT">>

\* ---------------------------------------------------- the clients: claims

RECURSIVE SumUpTo(_, _)
SumUpTo(f, u) == IF u < 0 THEN 0 ELSE f[u] + SumUpTo(f, u - 1)

TotalSent == SumUpTo(sent, MaxTime)

\* C18: every HTTP request a client sends, each retry attempt included, has
\* its own limiter admission before it: the client has never sent more
\* requests than its limiter has admitted calls.
C18_EverySendAdmitted == TotalSent <= TotalAdmitted

\* the step in which thread t sends one HTTP request and gets its answer
SendStep(t) == cpc[t] = "send" /\ cpc'[t] # "send"

\* the step in which thread t comes back from a backoff sleep
BackoffEnds(t) == cpc[t] = "backoff" /\ cpc'[t] # "backoff"

\* the HTTP requests sent at the current clock value
SentNow == sent[clock]

DailyStep == dres' # dres \/ cache_data' # cache_data

\* the entry a call recorded in d is about: its symbol in upper case and
\* its adjusted flag
KeyOf(d) == <<upper(d.symbol), IF d.adjusted THEN "adj" ELSE "raw">>

\* C35: a daily_if_changed call whose request succeeded returns None when
\* the entry of its (symbol, adjusted flag) equals the provider's newest date
\* and never otherwise; a call that returned (None or candles) leaves that
\* entry equal to the newest date and every other entry as it was; a call
\* that raised leaves the whole cache as it was.
C35_ChangedOnlyWhenNewer ==
    [][DailyStep =>
         LET d == dres' IN
           /\ d.ret \in {"None", "candles", "AlphaVantageApiError", "AlphaVantageError"}
           /\ d.ret = "None" => cache_data[KeyOf(d)] = <<d.newest>>
           /\ (cache_data[KeyOf(d)] = <<d.newest>> /\ d.ret # "AlphaVantageError")
                 => d.ret = "None"
           /\ d.ret \in {"None", "candles"} =>
                 /\ cache_data'[KeyOf(d)] = <<d.newest>>
                 /\ \A k \in CacheKeys \ {KeyOf(d)} : cache_data'[k] = cache_data[k]
           /\ d.ret \notin {"None", "candles"} => cache_data' = cache_data]_vars

\* a call for the adjusted series returned None on an entry an earlier call
\* wrote, while the entry of the same symbol's raw series holds another date
C35_Witness ==
    /\ dres.ret = "None" /\ dres.adjusted
    /\ cache_data[<<upper(dres.symbol), "adj">>] = <<dres.newest>>
    /\ cache_data[<<upper(dres.symbol), "raw">>] # NoneVal
    /\ cache_data[<<upper(dres.symbol), "raw">>] # <<dres.newest>>

====
